---- MODULE Spec2Model ----
(***************************************************************************)
(* Model of libraries/heft-config-file/src/ConfigurationFile.ts: the       *)
(* ConfigurationFile class (promise cache, loop detection, rig fallback,   *)
(* extends resolution, property merging and provenance annotations).       *)
(***************************************************************************)
EXTENDS Integers, Sequences, FiniteSets, TLC

(***************************************************************************)
(* JSON values.  Every value is a record of the same shape, so that any    *)
(* two values can be compared:                                             *)
(*   t    "undefined" | "null" | "num" | "str" | "arr" | "obj"             *)
(*   s    the scalar's text ("" for the others)                            *)
(*   v    the own enumerable properties, in insertion order, as a          *)
(*        sequence of entries [k, x]; an array's keys are "0", "1", ...    *)
(*   ann  the value stored under CONFIGURATION_FILE_FIELD_ANNOTATION       *)
(***************************************************************************)
NoAnnotation == [has |-> FALSE, file |-> "", orig |-> <<>>]

Value(t, s, v) == [t |-> t, s |-> s, v |-> v, ann |-> NoAnnotation]

Undefined == Value("undefined", "", <<>>)

Null == Value("null", "", <<>>)

Num(s) == Value("num", s, <<>>)

Str(s) == Value("str", s, <<>>)

Entry(k, x) == [k |-> k, x |-> x]

Arr(elems) == Value("arr", "", [i \in 1..Len(elems) |-> Entry(ToString(i - 1), elems[i])])

Obj(entries) == Value("obj", "", entries)

\* Object.keys, on a property list
ObjectKeys(entries) == [i \in 1..Len(entries) |-> entries[i].k]

\* x.hasOwnProperty(k), on a property list
HasOwn(entries, k) == \E i \in 1..Len(entries) : entries[i].k = k

\* x[k]: the property's value, undefined when there is none
Prop(entries, k) ==
  IF HasOwn(entries, k)
    THEN entries[CHOOSE i \in 1..Len(entries) : entries[i].k = k].x
    ELSE Undefined

\* typeof x === 'object' (true of null as well)
TypeofObject(x) == x.t \in {"obj", "arr", "null"}

\* Array.isArray(x)
IsArray(x) == x.t = "arr"

\* !!x
Truthy(x) ==
  /\ x.t \notin {"undefined", "null"}
  /\ ~(x.t = "num" /\ x.s = "0")
  /\ ~(x.t = "str" /\ x.s = "")

\* The elements of an array value, in order
Elements(x) == [i \in 1..Len(x.v) |-> x.v[i].x]

\* The second array's elements before the first's
SpreadArraysSwapped(a, b) ==
  LET es == Elements(b) \o Elements(a)
  IN [i \in 1..Len(es) |-> Entry(ToString(i - 1), es[i])]

\* [...a, ...b] as a property list
SpreadArrays(a, b) ==
  LET es == Elements(a) \o Elements(b)
  IN [i \in 1..Len(es) |-> Entry(ToString(i - 1), es[i])]

\* { ...a, ...b } on property lists: a's keys keep their place and take b's value
\* where b has the key, b's other keys follow
SpreadObjects(a, b) ==
  LET SelectNew(seq) == SelectSeq(seq, LAMBDA e : ~HasOwn(a, e.k))
  IN [i \in 1..Len(a) |-> IF HasOwn(b, a[i].k) THEN Entry(a[i].k, Prop(b, a[i].k)) ELSE a[i]]
       \o SelectNew(b)

(***************************************************************************)
(* The options the instance was constructed with.                          *)
(***************************************************************************)
\* The property names that occur in the configuration files of the model
PropertyNames ==
  {"extends", "$schema", "tags", "opts", "cust", "out", "name", "list", "repl", "odd", "nofn", "a", "b", "c"}

\* Options that declare merge for every property
propertyInheritanceTypesAllMerge(name) == [inheritanceType |-> "merge", inheritanceFunction |-> ""]

\* options.propertyInheritance: "" where the property has no entry
propertyInheritanceTypes(name) ==
  CASE name = "opts" -> [inheritanceType |-> "merge", inheritanceFunction |-> ""]
    [] name = "cust" -> [inheritanceType |-> "custom", inheritanceFunction |-> "concat"]
    [] name = "list" -> [inheritanceType |-> "append", inheritanceFunction |-> ""]
    [] name = "repl" -> [inheritanceType |-> "replace", inheritanceFunction |-> ""]
    [] name = "odd" -> [inheritanceType |-> "bogus", inheritanceFunction |-> ""]
    [] name = "nofn" -> [inheritanceType |-> "custom", inheritanceFunction |-> ""]
    [] OTHER -> [inheritanceType |-> "", inheritanceFunction |-> ""]

\* options.jsonPathMetadata: the one selector '$.out', resolved relative to the
\* configuration file
jsonPathMetadata == [path |-> "out", pathResolutionMethod |-> "resolvePathRelativeToConfigurationFile"]

\* The custom inheritance function the instance was given for "cust": it returns
\* a new array of the parent's then the child's elements, as a caller's function
\* does, without any annotation
inheritanceFunction(fn, currentValue, parentValue) ==
  IF fn = "concat" /\ IsArray(currentValue) /\ IsArray(parentValue)
    THEN Value("arr", "", SpreadArrays(parentValue, currentValue))
    ELSE currentValue

\* A call that hands the function the parent's value first
CustomValueParentFirst(inheritance, propertyValue, parentPropertyValue) ==
  inheritanceFunction(inheritance.inheritanceFunction, parentPropertyValue, propertyValue)

\* customInheritance.inheritanceFunction(propertyValue, parentPropertyValue)
CustomValue(inheritance, propertyValue, parentPropertyValue) ==
  inheritanceFunction(inheritance.inheritanceFunction, propertyValue, parentPropertyValue)

(***************************************************************************)
(* Provenance annotations.                                                 *)
(***************************************************************************)
\* getObjectSourceFilePath(obj)
getObjectSourceFilePath(obj) == IF obj.ann.has THEN obj.ann.file ELSE "undefined"

\* A lookup that returns the property's value as it is now
getPropertyCurrentValue(parentObject, propertyName) == Prop(parentObject.v, propertyName)

\* getPropertyOriginalValue({ parentObject, propertyName })
getPropertyOriginalValue(parentObject, propertyName) ==
  IF parentObject.ann.has /\ HasOwn(parentObject.ann.orig, propertyName)
    THEN Prop(parentObject.ann.orig, propertyName)
    ELSE Undefined

\* An annotation of the object itself, not of the objects it holds
_annotatePropertiesRootOnly(resolvedConfigurationFilePath, obj) ==
  IF Truthy(obj) /\ TypeofObject(obj)
    THEN [obj EXCEPT !.ann = [has |-> TRUE, file |-> resolvedConfigurationFilePath, orig |-> obj.v]]
    ELSE obj

\* _annotateProperties: every object and array reachable from obj gets an
\* annotation naming the file, with a shallow copy of its properties.  The copy
\* holds the same child objects, which are annotated in turn.
RECURSIVE _annotateProperties(_, _)
_annotateProperties(resolvedConfigurationFilePath, obj) ==
  IF Truthy(obj) /\ TypeofObject(obj)
    THEN LET kids == [i \in 1..Len(obj.v) |->
                       Entry(obj.v[i].k, _annotateProperties(resolvedConfigurationFilePath, obj.v[i].x))]
         IN [obj EXCEPT !.v = kids,
                        !.ann = [has |-> TRUE, file |-> resolvedConfigurationFilePath, orig |-> kids]]
    ELSE obj

\* nodeJsPath.dirname of the paths of the model
Dirname(path) ==
  CASE path = "/a/cfg.json" -> "/a"
    [] path = "/b/cfg.json" -> "/b"
    [] path = "/c/cfg.json" -> "/c"
    [] OTHER -> "/"

\* A resolution that returns the value as it is written
_resolvePathPropertyAsWritten(configurationFilePath, propertyValue, metadata) == propertyValue

\* _resolvePathProperty, for the method of jsonPathMetadata
_resolvePathProperty(configurationFilePath, propertyValue, metadata) ==
  IF metadata.pathResolutionMethod = "resolvePathRelativeToConfigurationFile"
    THEN Dirname(configurationFilePath) \o "/" \o propertyValue
    ELSE propertyValue

\* The JSONPath pass of _loadConfigurationFileInnerAsync: the property the
\* selector matches is overwritten in place; the annotation made before keeps
\* the value as it was written in the file
RewritePaths(resolvedConfigurationFilePath, configurationJson) ==
  LET hit(e) == e.k = jsonPathMetadata.path /\ e.x.t = "str"
  IN [configurationJson EXCEPT !.v =
        [i \in 1..Len(configurationJson.v) |->
           IF hit(configurationJson.v[i])
             THEN Entry(configurationJson.v[i].k,
                        Str(_resolvePathProperty(resolvedConfigurationFilePath,
                                                 configurationJson.v[i].x.s, jsonPathMetadata)))
             ELSE configurationJson.v[i]]]

(***************************************************************************)
(* _mergeObjects.  A merge yields [err, val]: err is "" and val the new    *)
(* object, or err names the error thrown.                                  *)
(***************************************************************************)
\* The key of the merge behaviour annotation of a property
MergeBehaviorKey(name) == "$" \o name \o ".mergeBehavior"

\* CONFIGURATION_FILE_MERGE_BEHAVIOR_FIELD_REGEX: the property the key is an
\* annotation of (match group 1), "" when the key does not match
MergeBehaviorTarget(key) ==
  IF \E n \in PropertyNames : key = MergeBehaviorKey(n)
    THEN CHOOSE n \in PropertyNames : key = MergeBehaviorKey(n)
    ELSE ""

\* String.prototype.toLowerCase on the behaviours written in the files
ToLowerCase(str) ==
  CASE str \in {"append", "Append", "APPEND"} -> "append"
    [] str \in {"merge", "Merge", "MERGE"} -> "merge"
    [] str \in {"replace", "Replace", "REPLACE"} -> "replace"
    [] OTHER -> str

\* x || {} as a property list
OrEmpty(x) == IF Truthy(x) THEN x.v ELSE <<>>

\* JSON.stringify of a value
RECURSIVE JSONStringify(_)
JSONStringify(x) ==
  LET RECURSIVE Join(_, _)
      Join(parts, i) ==
        IF i > Len(parts) THEN ""
        ELSE (IF i > 1 THEN "," ELSE "") \o parts[i] \o Join(parts, i + 1)
  IN CASE x.t = "num" -> x.s
       [] x.t = "str" -> "\"" \o x.s \o "\""
       [] x.t = "null" -> "null"
       [] x.t = "arr" ->
            "[" \o Join([i \in 1..Len(x.v) |-> JSONStringify(x.v[i].x)], 1) \o "]"
       [] x.t = "obj" ->
            "{" \o Join([i \in 1..Len(x.v) |->
                           "\"" \o x.v[i].k \o "\":" \o JSONStringify(x.v[i].x)], 1) \o "}"
       [] OTHER -> "undefined"

\* The start of the messages of the errors _mergeObjects throws for a property
Issue(propertyName) ==
  "Issue in processing configuration file property \"" \o propertyName \o "\". "

\* A first pass that looks at the key's value before it looks for its property
MergeBehaviorErrorValueFirst(currentObject, propertyName) ==
  LET target == MergeBehaviorTarget(propertyName)
      raw == Prop(OrEmpty(currentObject), propertyName)
  IN IF target = "" THEN ""
     ELSE IF raw.t # "str"
       THEN Issue(propertyName) \o "An unsupported merge behavior was provided: " \o JSONStringify(raw)
     ELSE IF ToLowerCase(raw.s) \notin {"append", "merge", "replace"}
       THEN Issue(propertyName) \o "An unsupported merge behavior was provided: \"" \o raw.s \o "\""
     ELSE IF ~HasOwn(OrEmpty(currentObject), target)
       THEN Issue(propertyName) \o "A merge behavior was provided but no matching property was found"
     ELSE IF ~TypeofObject(Prop(OrEmpty(currentObject), target))
       THEN Issue(propertyName) \o "A merge behavior was provided for a property that is not an object"
     ELSE ""

\* The first pass over one key of currentObject: "" when the key is no
\* annotation or a well-formed one, the error otherwise
MergeBehaviorError(currentObject, propertyName) ==
  LET target == MergeBehaviorTarget(propertyName)
      raw == Prop(OrEmpty(currentObject), propertyName)
  IN IF target = "" THEN ""
     ELSE IF ~HasOwn(OrEmpty(currentObject), target) THEN Issue(propertyName) \o "A merge behavior was provided but no matching property was found"
     ELSE IF raw.t # "str"
       THEN Issue(propertyName) \o "An unsupported merge behavior was provided: " \o JSONStringify(raw)
     ELSE IF ~TypeofObject(Prop(OrEmpty(currentObject), target))
       THEN Issue(propertyName) \o "A merge behavior was provided for a property that is not an object"
     ELSE IF ToLowerCase(raw.s) \notin {"append", "merge", "replace"}
       THEN Issue(propertyName) \o "An unsupported merge behavior was provided: \"" \o raw.s \o "\""
     ELSE ""

\* The first element of a sequence of strings that is not "", "" when none
FirstError(errs) ==
  IF \E i \in 1..Len(errs) : errs[i] # ""
    THEN errs[CHOOSE i \in 1..Len(errs) : errs[i] # "" /\ \A j \in 1..(i - 1) : errs[j] = ""]
    ELSE ""

\* A sequence without its repeated elements, first occurrences kept (new Set([...]))
RECURSIVE Dedup(_)
Dedup(seq) ==
  IF seq = <<>> THEN <<>>
  ELSE LET front == Dedup(SubSeq(seq, 1, Len(seq) - 1))
           last == seq[Len(seq)]
       IN IF \E i \in 1..Len(front) : front[i] = last THEN front ELSE Append(front, last)

\* The configured inheritance before the file's annotation
PropertyInheritanceConfiguredFirst(currentObject, propertyName, propertyValue, parentPropertyValue, top) ==
  LET annotated == HasOwn(OrEmpty(currentObject), MergeBehaviorKey(propertyName))
      configured == IF top THEN propertyInheritanceTypes(propertyName)
                           ELSE [inheritanceType |-> "", inheritanceFunction |-> ""]
  IN IF configured.inheritanceType # "" THEN configured
     ELSE IF annotated
       THEN [inheritanceType |-> ToLowerCase(Prop(OrEmpty(currentObject), MergeBehaviorKey(propertyName)).s),
             inheritanceFunction |-> ""]
     ELSE IF IsArray(propertyValue) /\ IsArray(parentPropertyValue)
       THEN [inheritanceType |-> "append", inheritanceFunction |-> ""]
     ELSE [inheritanceType |-> "replace", inheritanceFunction |-> ""]

\* The default inheritance whatever the file and the options say
PropertyInheritanceDefaultOnly(currentObject, propertyName, propertyValue, parentPropertyValue, top) ==
  IF IsArray(propertyValue) /\ IsArray(parentPropertyValue)
    THEN [inheritanceType |-> "append", inheritanceFunction |-> ""]
    ELSE [inheritanceType |-> "replace", inheritanceFunction |-> ""]

\* The configured inheritance at every level of nesting
PropertyInheritanceAtEveryLevel(currentObject, propertyName, propertyValue, parentPropertyValue, top) ==
  LET annotated == HasOwn(OrEmpty(currentObject), MergeBehaviorKey(propertyName))
      configured == propertyInheritanceTypes(propertyName)
  IN IF annotated
       THEN [inheritanceType |-> ToLowerCase(Prop(OrEmpty(currentObject), MergeBehaviorKey(propertyName)).s),
             inheritanceFunction |-> ""]
     ELSE IF configured.inheritanceType # "" THEN configured
     ELSE IF IsArray(propertyValue) /\ IsArray(parentPropertyValue)
       THEN [inheritanceType |-> "append", inheritanceFunction |-> ""]
     ELSE [inheritanceType |-> "replace", inheritanceFunction |-> ""]

\* The inheritance of one property: the file's annotation if there is one, else
\* the configured one, else append for two arrays and replace otherwise
PropertyInheritance(currentObject, propertyName, propertyValue, parentPropertyValue, top) ==
  LET annotated == HasOwn(OrEmpty(currentObject), MergeBehaviorKey(propertyName))
      configured == IF top THEN propertyInheritanceTypes(propertyName)
                           ELSE [inheritanceType |-> "", inheritanceFunction |-> ""]
  IN IF annotated
       THEN [inheritanceType |-> ToLowerCase(Prop(OrEmpty(currentObject), MergeBehaviorKey(propertyName)).s),
             inheritanceFunction |-> ""]
     ELSE IF configured.inheritanceType # "" THEN configured
     ELSE IF IsArray(propertyValue) /\ IsArray(parentPropertyValue)
       THEN [inheritanceType |-> "append", inheritanceFunction |-> ""]
     ELSE [inheritanceType |-> "replace", inheritanceFunction |-> ""]

\* An iteration that takes the file's value whatever the parent holds
MergePropertyFromFileOnly(parentObject, currentObject, resolvedConfigurationFilePath, top, propertyName) ==
  [err |-> "", x |-> Prop(OrEmpty(currentObject), propertyName), set |-> TRUE,
   o |-> getPropertyOriginalValue(currentObject, propertyName)]

RECURSIVE _mergeObjects(_, _, _, _)
\* One iteration of the loop over propertyNames: [err, x, set, o] with x the
\* new value, and o the entry written to resultAnnotation.originalValues when
\* set is TRUE
MergeProperty(parentObject, currentObject, resolvedConfigurationFilePath, top, propertyName) ==
  LET propertyValue == Prop(OrEmpty(currentObject), propertyName)
      parentPropertyValue == Prop(OrEmpty(parentObject), propertyName)
      inheritance == PropertyInheritance(currentObject, propertyName, propertyValue,
                                         parentPropertyValue, top)
      usePropertyValue ==
        [err |-> "", x |-> propertyValue, set |-> TRUE,
         o |-> getPropertyOriginalValue(currentObject, propertyName)]
      useParentPropertyValue ==
        [err |-> "", x |-> parentPropertyValue, set |-> TRUE,
         o |-> getPropertyOriginalValue(parentObject, propertyName)]
      throw(e) == [err |-> e, x |-> Undefined, set |-> FALSE, o |-> Undefined]
      value(x) == [err |-> "", x |-> x, set |-> FALSE, o |-> Undefined]
      defined(x) == x.t # "undefined"
  IN IF defined(propertyValue) /\ ~defined(parentPropertyValue) THEN usePropertyValue
     ELSE IF defined(parentPropertyValue) /\ ~defined(propertyValue) THEN useParentPropertyValue
     ELSE CASE inheritance.inheritanceType = "replace" ->
                 IF defined(propertyValue) THEN usePropertyValue ELSE useParentPropertyValue
            [] inheritance.inheritanceType = "append" ->
                 IF ~IsArray(propertyValue) \/ ~IsArray(parentPropertyValue)
                   THEN throw(Issue(propertyName) \o
                          "Property is not an array, but the inheritance type is set as \"append\"")
                 ELSE IF ~parentPropertyValue.ann.has \/ ~propertyValue.ann.has
                   THEN throw("TypeError")
                 ELSE value([t |-> "arr", s |-> "",
                             v |-> SpreadArrays(parentPropertyValue, propertyValue),
                             ann |-> [has |-> TRUE, file |-> "undefined",
                                      orig |-> SpreadObjects(parentPropertyValue.ann.orig,
                                                             propertyValue.ann.orig)]])
            [] inheritance.inheritanceType = "merge" ->
                 IF parentPropertyValue.t = "null" \/ propertyValue.t = "null"
                   THEN throw(Issue(propertyName) \o
                          "Null values cannot be used when the inheritance type is set as \"merge\"")
                 ELSE IF (Truthy(propertyValue) /\ ~TypeofObject(propertyValue))
                           \/ (Truthy(parentPropertyValue) /\ ~TypeofObject(parentPropertyValue))
                   THEN throw(Issue(propertyName) \o
                          "Primitive types cannot be provided when the inheritance type is set as \"merge\"")
                 ELSE IF IsArray(propertyValue) \/ IsArray(parentPropertyValue)
                   THEN throw(Issue(propertyName) \o
                          "Property is not a keyed object, but the inheritance type is set as \"merge\"")
                 ELSE LET m == _mergeObjects(parentPropertyValue, propertyValue,
                                             resolvedConfigurationFilePath, FALSE)
                      IN IF m.err # "" THEN throw(m.err) ELSE value(m.val)
            [] inheritance.inheritanceType = "custom" ->
                 IF inheritance.inheritanceFunction = ""
                   THEN throw("For property inheritance type \"InheritanceType.custom\", an inheritanceFunction must be provided.")
                   ELSE value(CustomValue(inheritance, propertyValue, parentPropertyValue))
            [] OTHER -> throw("Unknown inheritance type \"[object Object]\"")

\* top is TRUE for the call of _mergeConfigurationFiles, which passes the
\* configured inheritance and the ignored properties, FALSE for the recursive call
_mergeObjects(parentObject, currentObject, resolvedConfigurationFilePath, top) ==
  LET ignoreProperties == IF top THEN {"extends", "$schema"} ELSE {}
      currentKeys == ObjectKeys(OrEmpty(currentObject))
      considered == SelectSeq(currentKeys, LAMBDA k : k \notin ignoreProperties)
      firstPass == FirstError([i \in 1..Len(considered) |->
                                 MergeBehaviorError(currentObject, considered[i])])
      filteredObjectPropertyNames == SelectSeq(considered, LAMBDA k : MergeBehaviorTarget(k) = "")
      propertyNames == Dedup(ObjectKeys(OrEmpty(parentObject)) \o filteredObjectPropertyNames)
      merged == [i \in 1..Len(propertyNames) |->
                   MergeProperty(parentObject, currentObject, resolvedConfigurationFilePath,
                                 top, propertyNames[i])]
      secondPass == FirstError([i \in 1..Len(propertyNames) |-> merged[i].err])
      originalValues ==
        LET idx == SelectSeq([i \in 1..Len(propertyNames) |-> i], LAMBDA i : merged[i].set)
        IN [j \in 1..Len(idx) |-> Entry(propertyNames[idx[j]], merged[idx[j]].o)]
  IN IF firstPass # "" THEN [err |-> firstPass, val |-> Undefined]
     ELSE IF secondPass # "" THEN [err |-> secondPass, val |-> Undefined]
     ELSE [err |-> "",
           val |-> [t |-> "obj", s |-> "",
                    v |-> [i \in 1..Len(propertyNames) |-> Entry(propertyNames[i], merged[i].x)],
                    ann |-> [has |-> TRUE, file |-> resolvedConfigurationFilePath,
                             orig |-> originalValues]]]

\* A merge of two files that passes no ignored properties
_mergeConfigurationFilesIgnoringNothing(parentConfiguration, configurationJson, resolvedConfigurationFilePath) ==
  _mergeObjects(parentConfiguration, configurationJson, resolvedConfigurationFilePath, FALSE)

\* A merge whose objects name the file of the parent's object, where there is one
_mergeConfigurationFilesAsParent(parentConfiguration, configurationJson, resolvedConfigurationFilePath) ==
  _mergeObjects(parentConfiguration, configurationJson,
                IF parentConfiguration.ann.has THEN parentConfiguration.ann.file
                                               ELSE resolvedConfigurationFilePath,
                TRUE)

\* _mergeConfigurationFiles
_mergeConfigurationFiles(parentConfiguration, configurationJson, resolvedConfigurationFilePath) ==
  _mergeObjects(parentConfiguration, configurationJson, resolvedConfigurationFilePath, TRUE)

(***************************************************************************)
(* The files.  A configuration file's text is fixed the first time the     *)
(* program reads it: fs[path] is Unread until then.                        *)
(***************************************************************************)
\* The folders a project can be in
Folders == {"/a", "/b", "/c"}

\* The folders a rig's profile can resolve to
ProfileFolders == {"/b", "/c"}

\* options.projectRelativeFilePath
projectRelativeFilePath == "cfg.json"

\* nodeJsPath.resolve(folder, projectRelativeFilePath)
ResolveInFolder(folder) == folder \o "/" \o projectRelativeFilePath

\* _getConfigurationFilePathForProject
_getConfigurationFilePathForProject(projectPath) == ResolveInFolder(projectPath)

Paths == {ResolveInFolder(f) : f \in Folders}

\* The values of "extends" written in the files
ExtendsRefs == {"../a/cfg.json", "../b/cfg.json", "../c/cfg.json"}

\* Import.resolveModule({ modulePath, baseFolderPath }) for the references above:
\* every base folder of the model is a child of the root
ResolveModule(modulePath, baseFolderPath) ==
  CASE modulePath = "../a/cfg.json" -> "/a/cfg.json"
    [] modulePath = "../b/cfg.json" -> "/b/cfg.json"
    [] modulePath = "../c/cfg.json" -> "/c/cfg.json"
    [] OTHER -> baseFolderPath \o "/" \o modulePath

\* The properties a file of the model can hold besides "extends"
FileData(id) ==
  CASE id = "base" ->
         <<Entry("$schema", Str("schema.json")),
           Entry("tags", Arr(<<Str("t1"), Str("t2")>>)),
           Entry("out", Str("lib")),
           Entry("opts", Obj(<<Entry("a", Num("1")), Entry("b", Num("2"))>>))>>
    [] id = "more" ->
         <<Entry("tags", Arr(<<Str("t3")>>)),
           Entry("opts", Obj(<<Entry("b", Num("3")), Entry("c", Num("4"))>>)),
           Entry("name", Str("n"))>>
    [] id = "directive" ->
         <<Entry("tags", Arr(<<Str("t4"), Str("t5"), Str("t6")>>)),
           Entry("$tags.mergeBehavior", Str("Append")),
           Entry("name", Str("d"))>>
    [] id = "invalid" ->
         <<Entry("name", Num("7"))>>
    [] id = "paths" ->
         <<Entry("out", Str("dist"))>>
    [] id = "bare" ->
         <<Entry("opts", Obj(<<>>))>>
    [] OTHER -> <<>>

\* The data a file at a path can hold
DataOf(path) ==
  CASE path = "/a/cfg.json" -> {"base"}
    [] path = "/b/cfg.json" -> {"more"}
    [] path = "/c/cfg.json" -> {"directive", "invalid", "paths", "bare"}

Unread == [kind |-> "unread", extends |-> "", data |-> ""]

\* What a path can hold: nothing, text that is not JSON, or an object
FileContents(path) ==
  {[kind |-> "absent", extends |-> "", data |-> ""],
   [kind |-> "malformed", extends |-> "", data |-> ""]}
    \cup [kind : {"json"}, extends : {""} \cup ExtendsRefs, data : DataOf(path)]

\* JsonFile.parseString of a file's text
ParseString(content) ==
  Obj((IF content.extends = "" THEN <<>> ELSE <<Entry("extends", Str(content.extends))>>)
        \o FileData(content.data))

\* this._schema.validateObject: the schema of the model wants an array for
\* "tags" and a string for "name"
SchemaValid(obj) ==
  /\ HasOwn(obj.v, "tags") => Prop(obj.v, "tags").t = "arr"
  /\ HasOwn(obj.v, "name") => Prop(obj.v, "name").t = "str"

(***************************************************************************)
(* The state of one ConfigurationFile instance and of the calls on it.     *)
(***************************************************************************)
\* The number of top-level calls made on the instance
MaxLoads == 2

LoadIds == 1..MaxLoads

VARIABLES
  fs,        \* the text of each file, once read
  cache,     \* _configPromiseCache: per path, the state of the cached promise
  task,      \* per path, where its _loadConfigurationFileInnerAsync call stands
  visited,   \* per top-level call, its visitedConfigurationFilePaths set
  loads,     \* the top-level calls
  reads,     \* per path, the number of FileSystem.readFileAsync calls
  parentObject,   \* the parentObject argument of a call of _mergeObjects made on its own
  currentObject,  \* its currentObject argument
  mergeResult     \* what the call returned or threw, NotMerged before the call

\* The variables of a call of _mergeObjects made on its own
mergeVars == <<parentObject, currentObject, mergeResult>>

vars == <<fs, cache, task, visited, loads, reads, parentObject, currentObject, mergeResult>>

\* How a promise stands: st is "absent" (no promise), "pending", "fulfilled"
\* (val is the value) or "rejected" (err is the error).  Objects are compared by
\* reference in the program, values by content here: oid tells two objects of
\* the same content apart, it names the file whose merge made the object and
\* which of the reads of that file the merge belongs to.
NoError == [kind |-> "", path |-> ""]

NoObject == [path |-> "", n |-> 0]

Absent == [st |-> "absent", val |-> Undefined, oid |-> NoObject, err |-> NoError]

Pending == [st |-> "pending", val |-> Undefined, oid |-> NoObject, err |-> NoError]

Fulfilled(val, oid) == [st |-> "fulfilled", val |-> val, oid |-> oid, err |-> NoError]

Rejected(kind, path) ==
  [st |-> "rejected", val |-> Undefined, oid |-> NoObject, err |-> [kind |-> kind, path |-> path]]

Settled(promise) == promise.st \in {"fulfilled", "rejected"}

\* FileSystem.isNotExistError(e), of a rejected promise
IsNotExistError(promise) == promise.st = "rejected" /\ promise.err.kind = "NotExist"

\* The rigConfig argument: not given, or a RigConfig with its rigFound flag and
\* the folder getResolvedProfileFolderAsync resolves to
NoRig == [given |-> FALSE, rigFound |-> FALSE, profileFolder |-> ""]

RigConfigs ==
  {NoRig, [given |-> TRUE, rigFound |-> FALSE, profileFolder |-> ""]}
    \cup [given : {TRUE}, rigFound : {TRUE}, profileFolder : ProfileFolders]

NoTask == [pc |-> "none", vs |-> 0, rig |-> NoRig]

\* A top-level call: rig is its rigConfig argument, hit is what the cache held
\* for its path when it was made,
\* alone whether no other call has been in flight at any time during this one
NoLoad ==
  [st |-> "idle", path |-> "", rig |-> NoRig, hit |-> "", alone |-> TRUE, inner |-> Absent, out |-> Absent]

\* _mergeObjects has not been called
NotMerged == [err |-> "not called", val |-> Undefined]

Init ==
  /\ fs = [p \in Paths |-> Unread]
  /\ cache = [p \in Paths |-> Absent]
  /\ task = [p \in Paths |-> NoTask]
  /\ visited = [i \in LoadIds |-> {}]
  /\ loads = [i \in LoadIds |-> NoLoad]
  /\ reads = [p \in Paths |-> 0]
  /\ parentObject = Undefined
  /\ currentObject = Undefined
  /\ mergeResult = NotMerged

(***************************************************************************)
(* _loadConfigurationFileInnerWithCacheAsync, up to its await.             *)
(***************************************************************************)
\* A lookup that never finds the cached promise
CacheGetNothing(path) == Absent

\* this._configPromiseCache.get(path): the promise, Absent when there is none
CacheGet(path) == cache[path]

\* A loop check that never finds the path
VisitedHasNothing(id, path) == FALSE

\* visitedConfigurationFilePaths.has(path)
VisitedHas(id, path) == path \in visited[id]

\* A call that starts every per-file load with a rig configuration, whatever
\* it was given
WithCachePassingRig(path, id, rigConfig) ==
  LET miss == CacheGet(path).st = "absent"
      loop == VisitedHas(id, path)
      rig == IF rigConfig.given THEN rigConfig
             ELSE [given |-> TRUE, rigFound |-> TRUE, profileFolder |-> "/b"]
  IN [cache |-> IF miss THEN [cache EXCEPT ![path] = Pending] ELSE cache,
      task |-> IF miss THEN [task EXCEPT ![path] = [pc |-> "read", vs |-> id, rig |-> rig]]
                       ELSE task,
      reads |-> IF miss THEN [reads EXCEPT ![path] = @ + 1] ELSE reads,
      visited |-> IF loop THEN visited ELSE [visited EXCEPT ![id] = @ \cup {path}],
      threw |-> loop]

\* The call for a path with the visited set of top-level call id: on a cache
\* miss the per-file load is started (its read is issued) and its promise is
\* cached; then the loop check throws or the path is added to the set.  The
\* record holds the variables after the call and whether it threw.
WithCache(path, id, rigConfig) ==
  LET miss == CacheGet(path).st = "absent"
      loop == VisitedHas(id, path)
  IN [cache |-> IF miss THEN [cache EXCEPT ![path] = Pending] ELSE cache,
      task |-> IF miss THEN [task EXCEPT ![path] = [pc |-> "read", vs |-> id, rig |-> rigConfig]]
                       ELSE task,
      reads |-> IF miss THEN [reads EXCEPT ![path] = @ + 1] ELSE reads,
      visited |-> IF loop THEN visited ELSE [visited EXCEPT ![id] = @ \cup {path}],
      threw |-> loop]

(***************************************************************************)
(* _loadConfigurationFileInnerAsync, one action per stretch between two    *)
(* awaits, and _tryLoadConfigurationFileInRigAsync, which it awaits.       *)
(***************************************************************************)
\* The parsed file after _annotateProperties and the JSONPath pass
ConfigurationJson(path) ==
  RewritePaths(path, _annotateProperties(path, ParseString(fs[path])))

\* The path the file's "extends" resolves to, "" when it has none
ResolvedParentConfigPath(path) ==
  LET extends == Prop(ConfigurationJson(path).v, "extends")
  IN IF Truthy(extends) THEN ResolveModule(extends.s, Dirname(path)) ELSE ""

\* The path of the file in the rig's profile folder
RigFilePath(rigConfig) == ResolveInFolder(rigConfig.profileFolder)

\* An end of the load that does not validate the merged object
MergeWithoutValidation(parentConfiguration, path) ==
  LET result == _mergeConfigurationFiles(parentConfiguration, ConfigurationJson(path), path)
  IN IF result.err # "" THEN Rejected(result.err, path)
     ELSE Fulfilled(result.val, [path |-> path, n |-> reads[path]])

\* The merge with the parent and the schema validation that end the load
MergeAndValidate(parentConfiguration, path) ==
  LET result == _mergeConfigurationFiles(parentConfiguration, ConfigurationJson(path), path)
  IN IF result.err # "" THEN Rejected(result.err, path)
     ELSE IF ~SchemaValid(result.val) THEN Rejected("Schema", path)
     ELSE Fulfilled(result.val, [path |-> path, n |-> reads[path]])

\* A merge that assigns the merged properties to the parent object
ParentAfterMergeInPlace(parentConfiguration, configurationJson, path) ==
  LET result == _mergeConfigurationFiles(parentConfiguration, configurationJson, path)
  IN IF result.err = "" THEN [result.val EXCEPT !.ann = parentConfiguration.ann]
     ELSE parentConfiguration

\* The parent object after _mergeObjects has run: the function assigns to the
\* result, to resultAnnotation.originalValues and to the annotation of the
\* array it makes for append, objects it has created itself, and reads the
\* parent object only
ParentAfterMerge(parentConfiguration, configurationJson, path) == parentConfiguration

\* The cache when the load of path merges the file with its parent's object
CacheAfterMerge(path) ==
  LET parent == ResolvedParentConfigPath(path)
  IN IF cache[parent].st = "fulfilled"
       THEN [cache EXCEPT ![parent].val =
               ParentAfterMerge(cache[parent].val, ConfigurationJson(path), path)]
       ELSE cache

\* What the catch around the parent's load does with the parent's promise
AfterParent(parent, path) ==
  IF parent.st = "fulfilled" THEN MergeAndValidate(parent.val, path)
  ELSE IF IsNotExistError(parent) THEN Rejected("BrokenExtends", path)
  ELSE parent

\* What the load of an absent file does with the promise of the rig's file
AfterRig(rigFile, path) ==
  IF rigFile.st = "fulfilled" THEN rigFile
  ELSE IF IsNotExistError(rigFile) THEN Rejected("NotExist", path)
  ELSE rigFile

\* The per-file load of path returns or throws: its promise settles
Settle(c, t, path, promise) ==
  /\ cache' = [c EXCEPT ![path] = promise]
  /\ task' = [t EXCEPT ![path].pc = "done"]

\* FileSystem.readFileAsync completes
ReadFileDone(path, content) ==
  /\ task[path].pc = "read"
  /\ IF fs[path] = Unread THEN content \in FileContents(path) ELSE content = fs[path]
  /\ fs' = [fs EXCEPT ![path] = content]
  /\ CASE content.kind = "absent" /\ task[path].rig.given /\ task[path].rig.rigFound ->
            /\ task' = [task EXCEPT ![path].pc = "rigFolder"]
            /\ cache' = cache
       [] content.kind = "absent" /\ ~(task[path].rig.given /\ task[path].rig.rigFound) ->
            Settle(cache, task, path, Rejected("NotExist", path))
       [] content.kind = "malformed" ->
            Settle(cache, task, path, Rejected("Parse", path))
       [] OTHER ->
            /\ task' = [task EXCEPT ![path].pc = "parsed"]
            /\ cache' = cache
  /\ UNCHANGED <<visited, loads, reads, mergeVars>>

\* rigConfig.getResolvedProfileFolderAsync completes
ProfileFolderResolved(path) ==
  /\ task[path].pc = "rigFolder"
  /\ LET call == WithCache(RigFilePath(task[path].rig), task[path].vs, NoRig)
     IN /\ IF call.threw
             THEN Settle(call.cache, call.task, path, Rejected("Loop", RigFilePath(task[path].rig)))
             ELSE /\ cache' = call.cache
                  /\ task' = [call.task EXCEPT ![path].pc = "awaitRig"]
        /\ visited' = call.visited
        /\ reads' = call.reads
  /\ UNCHANGED <<fs, loads, mergeVars>>

\* The promise of the rig's file has settled
RigSettled(path) ==
  /\ task[path].pc = "awaitRig"
  /\ Settled(cache[RigFilePath(task[path].rig)])
  /\ Settle(cache, task, path, AfterRig(cache[RigFilePath(task[path].rig)], path))
  /\ UNCHANGED <<fs, visited, loads, reads, mergeVars>>

\* The await of JsonFile.parseString returns: annotations, JSONPath pass, then
\* the parent's load is started, or the file is merged with no parent
Parsed(path) ==
  /\ task[path].pc = "parsed"
  /\ IF ResolvedParentConfigPath(path) = ""
       THEN /\ Settle(cache, task, path, MergeAndValidate(Undefined, path))
            /\ UNCHANGED <<visited, reads>>
       ELSE LET call == WithCache(ResolvedParentConfigPath(path), task[path].vs, NoRig)
            IN /\ IF call.threw
                    THEN Settle(call.cache, call.task, path,
                                Rejected("Loop", ResolvedParentConfigPath(path)))
                    ELSE /\ cache' = call.cache
                         /\ task' = [call.task EXCEPT ![path].pc = "awaitParent"]
               /\ visited' = call.visited
               /\ reads' = call.reads
  /\ UNCHANGED <<fs, loads, mergeVars>>

\* The promise of the parent file has settled
ParentSettled(path) ==
  /\ task[path].pc = "awaitParent"
  /\ Settled(cache[ResolvedParentConfigPath(path)])
  /\ Settle(CacheAfterMerge(path), task, path,
            AfterParent(cache[ResolvedParentConfigPath(path)], path))
  /\ UNCHANGED <<fs, visited, loads, reads, mergeVars>>

(***************************************************************************)
(* The public calls.  Every top-level call is a                            *)
(* tryLoadConfigurationFileForProjectAsync, which awaits                   *)
(* loadConfigurationFileForProjectAsync: inner is how the latter settled,  *)
(* out how the former did.                                                 *)
(***************************************************************************)
\* A catch that returns undefined for every error
TryLoadCatchAll(inner) == IF inner.st = "rejected" THEN Fulfilled(Undefined, NoObject) ELSE inner

\* The catch of tryLoadConfigurationFileForProjectAsync
TryLoad(inner) == IF IsNotExistError(inner) THEN Fulfilled(Undefined, NoObject) ELSE inner

\* loadConfigurationFileForProjectAsync is called: a new visited set, and
\* _loadConfigurationFileInnerWithCacheAsync up to its await
StartLoad(id, projectPath, rigConfig) ==
  /\ loads[id].st = "idle"
  /\ \A j \in LoadIds : j < id => loads[j].st # "idle"
  /\ LET path == _getConfigurationFilePathForProject(projectPath)
         call == WithCache(path, id, rigConfig)
     IN /\ cache' = call.cache
        /\ task' = call.task
        /\ visited' = call.visited
        /\ reads' = call.reads
        /\ loads' = [j \in LoadIds |->
                       IF j # id
                         THEN [loads[j] EXCEPT !.alone = @ /\ loads[j].st # "awaiting"]
                       ELSE IF call.threw
                         THEN [st |-> "done", path |-> path, rig |-> rigConfig,
                               hit |-> CacheGet(path).st,
                               alone |-> \A k \in LoadIds : loads[k].st # "awaiting",
                               inner |-> Rejected("Loop", path),
                               out |-> TryLoad(Rejected("Loop", path))]
                         ELSE [st |-> "awaiting", path |-> path, rig |-> rigConfig,
                               hit |-> CacheGet(path).st,
                               alone |-> \A k \in LoadIds : loads[k].st # "awaiting",
                               inner |-> Absent, out |-> Absent]]
  /\ UNCHANGED <<fs, mergeVars>>

\* The cached promise the call awaits has settled: both calls settle
FinishLoad(id) ==
  /\ loads[id].st = "awaiting"
  /\ Settled(cache[loads[id].path])
  /\ loads' = [loads EXCEPT ![id].st = "done",
                            ![id].inner = cache[loads[id].path],
                            ![id].out = TryLoad(cache[loads[id].path])]
  /\ UNCHANGED <<fs, cache, task, visited, reads, mergeVars>>

Next ==
  \/ \E id \in LoadIds, projectPath \in Folders, rigConfig \in RigConfigs :
       StartLoad(id, projectPath, rigConfig)
  \/ \E id \in LoadIds : FinishLoad(id)
  \/ \E path \in Paths : \E content \in FileContents(path) : ReadFileDone(path, content)
  \/ \E path \in Paths : ProfileFolderResolved(path)
  \/ \E path \in Paths : RigSettled(path)
  \/ \E path \in Paths : Parsed(path)
  \/ \E path \in Paths : ParentSettled(path)

Spec == Init /\ [][Next]_vars

(***************************************************************************)
(* _mergeConfigurationFiles called on its own: the file being merged holds *)
(* at most one property and a merge behaviour key for it, the parent's     *)
(* result is absent, or holds "name" and at most the same property.        *)
(***************************************************************************)
\* The properties the two objects can hold: "tags" has no configured
\* inheritance, the others have the one propertyInheritanceTypes gives them
MergeNames == {"tags", "opts", "cust", "list", "repl", "odd", "nofn"}

\* The values a property can have in a file
MergeValues ==
  {Null, Num("0"), Num("1"), Str("s"),
   Arr(<<Num("1"), Num("2")>>), Arr(<<Num("3")>>),
   Obj(<<Entry("a", Num("1")), Entry("b", Num("2"))>>),
   Obj(<<Entry("b", Num("3")), Entry("c", Num("4"))>>),
   Obj(<<Entry("b", Arr(<<Num("5")>>)), Entry("$b.mergeBehavior", Str("replace"))>>),
   Obj(<<Entry("b", Num("3")), Entry("$b.mergeBehavior", Str("append"))>>),
   Obj(<<Entry("extends", Str("x")),
         Entry("opts", Obj(<<Entry("a", Num("1"))>>)),
         Entry("cust", Arr(<<Num("1")>>))>>),
   Obj(<<Entry("$schema", Str("s")), Entry("extends", Str("y")),
         Entry("opts", Obj(<<Entry("c", Num("4"))>>)),
         Entry("cust", Arr(<<Num("2")>>))>>)}

\* The values a merge behaviour key can have in a file
MergeBehaviors == {Str("append"), Str("Merge"), Str("REPLACE"), Str("bogus"), Num("5"), Null}

\* The path of the file being merged, and of its parent
MergePath == "/m/cfg.json"

ParentPath == "/p/cfg.json"

\* The result of loading a parent file that has no "extends"
ParentResult(entries) ==
  _mergeConfigurationFiles(Undefined, _annotateProperties(ParentPath, Obj(entries)), ParentPath).val

MergeInit ==
  /\ fs = [p \in Paths |-> Unread]
  /\ cache = [p \in Paths |-> Absent]
  /\ task = [p \in Paths |-> NoTask]
  /\ visited = [i \in LoadIds |-> {}]
  /\ loads = [i \in LoadIds |-> NoLoad]
  /\ reads = [p \in Paths |-> 0]
  /\ mergeResult = NotMerged
  /\ \E name \in MergeNames :
       /\ \E own \in {<<>>} \cup {<<Entry(name, v)>> : v \in MergeValues},
             behavior \in {<<>>} \cup {<<Entry(MergeBehaviorKey(name), b)>> : b \in MergeBehaviors} :
            currentObject = _annotateProperties(MergePath, Obj(own \o behavior))
       /\ \/ parentObject = Undefined
          \/ \E inherited \in {<<>>} \cup {<<Entry(name, v)>> : v \in MergeValues} :
               parentObject = ParentResult(<<Entry("name", Str("p"))>> \o inherited)

\* _mergeConfigurationFiles(parentObject, currentObject, MergePath) returns or throws
MergeObjects ==
  /\ mergeResult = NotMerged
  /\ mergeResult' = _mergeConfigurationFiles(parentObject, currentObject, MergePath)
  /\ UNCHANGED <<fs, cache, task, visited, loads, reads, parentObject, currentObject>>

MergeNext == MergeObjects

MergeSpec == MergeInit /\ [][MergeNext]_vars

(***************************************************************************)
(* A chain of three files merged level by level, as the loads of a file,   *)
(* of the file it extends and of the file that one extends do: the         *)
(* grandparent's result is merged with the parent file, and the result of  *)
(* that merge with the file.  Each file holds at most one property and a   *)
(* merge behaviour key for it.                                             *)
(***************************************************************************)
\* The path of the file the parent extends
GrandparentPath == "/g/cfg.json"

\* The properties the files of the chain can hold
ChainNames == {"tags", "cust", "list", "repl"}

\* The values a property can have in a file of the chain
ChainValues == {Arr(<<Num("1"), Num("2")>>), Arr(<<Num("3")>>), Str("s")}

\* The values a merge behaviour key can have in a file of the chain
ChainBehaviors == {Str("append"), Str("replace")}

\* The parsed and annotated files at a path that hold name
ChainFiles(path, name) ==
  {_annotateProperties(path, Obj(own \o behavior)) :
     own \in {<<Entry(name, v)>> : v \in ChainValues},
     behavior \in {<<>>} \cup {<<Entry(MergeBehaviorKey(name), b)>> : b \in ChainBehaviors}}

ChainInit ==
  /\ fs = [p \in Paths |-> Unread]
  /\ cache = [p \in Paths |-> Absent]
  /\ task = [p \in Paths |-> NoTask]
  /\ visited = [i \in LoadIds |-> {}]
  /\ loads = [i \in LoadIds |-> NoLoad]
  /\ reads = [p \in Paths |-> 0]
  /\ mergeResult = NotMerged
  /\ \E name \in ChainNames :
       /\ \E v \in ChainValues :
            parentObject =
              _mergeConfigurationFiles(Undefined,
                                       _annotateProperties(GrandparentPath, Obj(<<Entry(name, v)>>)),
                                       GrandparentPath).val
       /\ currentObject \in ChainFiles(ParentPath, name)

\* The load of the file of currentObject merges it with its parent's result
ChainMerge ==
  /\ mergeResult = NotMerged
  /\ mergeResult' = _mergeConfigurationFiles(parentObject, currentObject,
                                             getObjectSourceFilePath(currentObject))
  /\ UNCHANGED <<fs, cache, task, visited, loads, reads, parentObject, currentObject>>

\* The load of the parent file has returned: the load of the file that
\* extends it goes on with the object returned
ChainDescend ==
  /\ mergeResult.err = ""
  /\ getObjectSourceFilePath(currentObject) = ParentPath
  /\ parentObject' = mergeResult.val
  /\ \E name \in ChainNames :
       /\ HasOwn(currentObject.v, name)
       /\ currentObject' \in ChainFiles(MergePath, name)
  /\ mergeResult' = NotMerged
  /\ UNCHANGED <<fs, cache, task, visited, loads, reads>>

ChainNext == ChainMerge \/ ChainDescend

ChainSpec == ChainInit /\ [][ChainNext]_vars

(***************************************************************************)
(* What the claims speak of.                                               *)
(***************************************************************************)
\* The per-file load of path can take a step now
Runnable(path) ==
  \/ task[path].pc \in {"read", "rigFolder", "parsed"}
  \/ task[path].pc = "awaitRig" /\ Settled(cache[RigFilePath(task[path].rig)])
  \/ task[path].pc = "awaitParent" /\ Settled(cache[ResolvedParentConfigPath(path)])

\* The promise a waiting per-file load awaits
Awaited(path) ==
  IF task[path].pc = "awaitRig" THEN RigFilePath(task[path].rig)
  ELSE ResolvedParentConfigPath(path)

\* The promise of path is settled, or the chain of promises it waits on ends in
\* a per-file load that can take a step: it does not wait on itself
RECURSIVE CanProgress(_, _)
CanProgress(path, seen) ==
  \/ Settled(cache[path])
  \/ Runnable(path)
  \/ /\ task[path].pc \in {"awaitRig", "awaitParent"}
     /\ Awaited(path) \notin seen \cup {path}
     /\ CanProgress(Awaited(path), seen \cup {path})

\* Following "extends" from path through the files call id has loaded itself:
\* the first path met twice, "" when the chain ends or leaves those files
RECURSIVE Revisited(_, _, _)
Revisited(path, seen, id) ==
  IF task[path].vs # id \/ fs[path].kind # "json" \/ ResolvedParentConfigPath(path) = ""
    THEN ""
  ELSE IF ResolvedParentConfigPath(path) \in seen \cup {path}
    THEN ResolvedParentConfigPath(path)
  ELSE Revisited(ResolvedParentConfigPath(path), seen \cup {path}, id)

\* C1: a top-level call during which no other call is in flight, and whose
\* chain of "extends" comes back to a file the call has visited, rejects with the
\* loop error naming that file; it never waits on a promise that cannot settle,
\* and once it is done no promise it created is pending.
C1_LoopDetectedInSingleLoad ==
  \A id \in LoadIds :
    loads[id].alone =>
      /\ loads[id].st = "awaiting" => CanProgress(loads[id].path, {})
      /\ (loads[id].st = "done" /\ Revisited(loads[id].path, {}, id) # "") =>
           /\ loads[id].inner = Rejected("Loop", Revisited(loads[id].path, {}, id))
           /\ \A path \in Paths : task[path].vs = id => Settled(cache[path])

\* C1 witness: a call made alone on a chain of two files or more that comes back
\* to its first file has rejected with the loop error
C1_Witness ==
  \E id \in LoadIds :
    /\ loads[id].alone /\ loads[id].st = "done"
    /\ Revisited(loads[id].path, {}, id) = loads[id].path
    /\ ResolvedParentConfigPath(loads[id].path) # loads[id].path
    /\ loads[id].inner.err.kind = "Loop"

\* Following "extends" from path through the files read so far leads to target
RECURSIVE ExtendsReaches(_, _, _)
ExtendsReaches(path, target, seen) ==
  /\ fs[path].kind = "json"
  /\ ResolvedParentConfigPath(path) # ""
  /\ \/ ResolvedParentConfigPath(path) = target
     \/ /\ ResolvedParentConfigPath(path) \notin seen \cup {path}
        /\ ExtendsReaches(ResolvedParentConfigPath(path), target, seen \cup {path})

\* path lies on a cycle of "extends"
OnCycle(path) == ExtendsReaches(path, path, {})

\* C2: calls in flight at the same time, started at files of one cycle of
\* "extends", all reject with the loop error: none of them waits on a promise
\* that waits, through other pending promises, on itself.
C2_ConcurrentLoadsOnCycleReject ==
  \A id \in LoadIds :
    (loads[id].st # "idle" /\ OnCycle(loads[id].path)) =>
      /\ loads[id].st = "awaiting" => CanProgress(loads[id].path, {})
      /\ loads[id].st = "done" => loads[id].inner.err.kind = "Loop"

\* C3: FileSystem.readFileAsync is called at most once per path, and a path has
\* a cached promise exactly when it has been read.
C3_EachPathReadAtMostOnce ==
  \A path \in Paths :
    /\ reads[path] <= 1
    /\ reads[path] = 0 <=> cache[path].st = "absent"

\* C3 witness: a call found the pending promise of an earlier request for its
\* path, and the path has been read once
C3_Witness ==
  \E id \in LoadIds :
    /\ loads[id].st = "done"
    /\ loads[id].hit = "pending"
    /\ reads[loads[id].path] = 1

\* C4: when a call for a project has succeeded, every other call for the same
\* project returns the same object, and a call made after the success issues no
\* file read.
C4_SecondLoadIsIdentical ==
  /\ [](\A i, j \in LoadIds :
          (/\ i # j
           /\ loads[i].st = "done" /\ loads[j].st = "done"
           /\ loads[i].path = loads[j].path
           /\ loads[i].inner.st = "fulfilled")
            => loads[j].inner = loads[i].inner)
  /\ [][\A i, j \in LoadIds :
          (/\ i # j
           /\ loads[i].st = "done" /\ loads[i].inner.st = "fulfilled"
           /\ loads[j].st = "idle" /\ loads'[j].st # "idle"
           /\ loads'[j].path = loads[i].path)
            => reads' = reads]_vars

\* C4 witness: a call has succeeded, and a later call for the same project,
\* which found the fulfilled promise, has returned
C4_Witness ==
  \E i, j \in LoadIds :
    /\ i # j
    /\ loads[i].st = "done" /\ loads[j].st = "done"
    /\ loads[i].path = loads[j].path
    /\ loads[i].inner.st = "fulfilled"
    /\ loads[j].hit = "fulfilled"

\* C5: tryLoad settles as load does, except that it resolves to undefined when
\* load rejects with a file-does-not-exist error.
C5_TryLoadDiffersOnlyOnNotExist ==
  \A id \in LoadIds :
    loads[id].st = "done" =>
      IF loads[id].inner.st = "rejected" /\ loads[id].inner.err.kind = "NotExist"
        THEN loads[id].out.st = "fulfilled" /\ loads[id].out.val = Undefined
        ELSE loads[id].out = loads[id].inner

\* C5 witness: one call resolved to undefined on a missing file, another
\* rethrew an error of another kind
C5_Witness ==
  \E i, j \in LoadIds :
    /\ loads[i].st = "done" /\ loads[j].st = "done"
    /\ loads[i].inner.err.kind = "NotExist" /\ loads[i].out.val = Undefined
    /\ loads[i].out.st = "fulfilled"
    /\ loads[j].inner.err.kind \in {"Parse", "Schema", "Loop", "BrokenExtends"}
    /\ loads[j].out = loads[j].inner

\* Following "extends" from path through the files read so far leads to a file
\* that does not exist
RECURSIVE ExtendsReachesAbsent(_, _)
ExtendsReachesAbsent(path, seen) ==
  /\ fs[path].kind = "json"
  /\ ResolvedParentConfigPath(path) # ""
  /\ \/ fs[ResolvedParentConfigPath(path)].kind = "absent"
     \/ /\ ResolvedParentConfigPath(path) \notin seen \cup {path}
        /\ ExtendsReachesAbsent(ResolvedParentConfigPath(path), seen \cup {path})

\* C6: a call for a project file that exists, and whose chain of "extends"
\* leads to a file that does not exist, rejects with the broken-extends error,
\* and so does tryLoad.
C6_MissingExtendsRejects ==
  \A id \in LoadIds :
    (loads[id].st = "done" /\ ExtendsReachesAbsent(loads[id].path, {})) =>
      /\ loads[id].inner.st = "rejected"
      /\ loads[id].inner.err.kind = "BrokenExtends"
      /\ loads[id].out = loads[id].inner

\* C7: a first call for a project whose own file does not exist settles as the
\* load of the rig's file does when the rig is given, is found and holds the
\* file, and rejects with the file-does-not-exist error for the project's path
\* otherwise.
C7_RigFallbackOrNotExist ==
  \A id \in LoadIds :
    (/\ loads[id].st = "done"
     /\ loads[id].hit = "absent"
     /\ fs[loads[id].path].kind = "absent") =>
      IF /\ task[loads[id].path].rig.given
         /\ task[loads[id].path].rig.rigFound
         /\ fs[RigFilePath(task[loads[id].path].rig)].kind \in {"json", "malformed"}
        THEN loads[id].inner = cache[RigFilePath(task[loads[id].path].rig)]
        ELSE loads[id].inner = Rejected("NotExist", loads[id].path)

\* The file at path exists, has no "extends", and its load has returned the
\* object made from it
LoadedWithoutExtends(path) ==
  /\ fs[path].kind = "json"
  /\ ResolvedParentConfigPath(path) = ""
  /\ cache[path].st = "fulfilled"
  /\ cache[path].oid.path = path

\* C8 as claimed: the result of loading a file with no "extends" has exactly
\* the properties of the parsed file, with the same values.
C8_ResultEqualsParsedFile ==
  \A path \in Paths :
    LoadedWithoutExtends(path) => cache[path].val.v = ConfigurationJson(path).v

\* The properties of a parsed file that take part in the merge
MergedProperties(configurationJson) ==
  SelectSeq(configurationJson.v,
            LAMBDA e : e.k \notin {"extends", "$schema"} /\ MergeBehaviorTarget(e.k) = "")

\* C8 as amended: the result of loading a file with no "extends" has exactly
\* the properties of the parsed file other than "$schema", "extends" and the
\* "$<name>.mergeBehavior" keys, in the file's order, with the values they have
\* after the path rewriting.
C8_ResultEqualsParsedFileWithoutIgnored ==
  \A path \in Paths :
    LoadedWithoutExtends(path) =>
      cache[path].val.v = MergedProperties(ConfigurationJson(path))

\* C8 witness: files with no "extends" have been loaded, one that holds
\* "$schema" and a rewritten path, one that holds a merge behaviour key
C8_Witness ==
  \E p, q \in Paths :
    /\ LoadedWithoutExtends(p) /\ LoadedWithoutExtends(q)
    /\ HasOwn(ConfigurationJson(p).v, "$schema")
    /\ Prop(cache[p].val.v, "out") = Str("/a/lib")
    /\ HasOwn(ConfigurationJson(q).v, "$tags.mergeBehavior")

\* The file at path has a parent, both loads have returned, and the object of
\* path is the one made by merging the two
MergedWithParent(path) ==
  /\ fs[path].kind = "json"
  /\ ResolvedParentConfigPath(path) # ""
  /\ cache[path].st = "fulfilled"
  /\ cache[path].oid.path = path
  /\ cache[ResolvedParentConfigPath(path)].st = "fulfilled"

\* The file at path holds an array under name, and the inheritance the file
\* asks for under that name is append: its merge behaviour key says so, or it
\* has none and nothing else is configured for the name
AppendsTo(path, name) ==
  LET json == ParseString(fs[path])
  IN /\ IsArray(Prop(json.v, name))
     /\ IF HasOwn(json.v, MergeBehaviorKey(name))
          THEN ToLowerCase(Prop(json.v, MergeBehaviorKey(name)).s) = "append"
          ELSE propertyInheritanceTypes(name).inheritanceType \in {"", "append"}

\* Every file of the chain of "extends" of path holds an array under name, and
\* every file but the last appends it
RECURSIVE AppendChain(_, _)
AppendChain(path, name) ==
  /\ fs[path].kind = "json"
  /\ IsArray(Prop(ParseString(fs[path]).v, name))
  /\ ResolvedParentConfigPath(path) # "" =>
       /\ AppendsTo(path, name)
       /\ cache[ResolvedParentConfigPath(path)].st = "fulfilled"
       /\ AppendChain(ResolvedParentConfigPath(path), name)

\* The arrays the files of the chain hold under name, root ancestor first
RECURSIVE ChainElements(_, _)
ChainElements(path, name) ==
  IF ResolvedParentConfigPath(path) = ""
    THEN Elements(Prop(ParseString(fs[path]).v, name))
    ELSE ChainElements(ResolvedParentConfigPath(path), name)
           \o Elements(Prop(ParseString(fs[path]).v, name))

\* C9: where a file appends its array to the array of its parent's result, the
\* merged array is the parent's elements followed by the file's; over a chain
\* of files that all append, it is the files' arrays one after the other, the
\* root ancestor's first.
C9_AppendConcatenates ==
  \A path \in Paths, name \in PropertyNames :
    /\ (/\ MergedWithParent(path)
        /\ AppendsTo(path, name)
        /\ IsArray(Prop(cache[ResolvedParentConfigPath(path)].val.v, name))) =>
         Elements(Prop(cache[path].val.v, name)) =
           Elements(Prop(cache[ResolvedParentConfigPath(path)].val.v, name))
             \o Elements(Prop(ParseString(fs[path]).v, name))
    /\ (cache[path].st = "fulfilled" /\ cache[path].oid.path = path /\ AppendChain(path, name)) =>
         Elements(Prop(cache[path].val.v, name)) = ChainElements(path, name)

\* C9 witness: a file whose parent has a parent has been loaded, all three
\* hold arrays under "tags", and the result holds the six elements
C9_Witness ==
  \E path \in Paths :
    /\ MergedWithParent(path)
    /\ ResolvedParentConfigPath(ResolvedParentConfigPath(path)) # ""
    /\ AppendChain(path, "tags")
    /\ Len(Prop(cache[path].val.v, "tags").v) = 6

\* C10: for an array made by appending, getPropertyOriginalValue with an index
\* returns the element at that index of the array.
C10_OriginalValueByIndex ==
  \A path \in Paths, name \in PropertyNames :
    (/\ MergedWithParent(path)
     /\ AppendsTo(path, name)
     /\ IsArray(Prop(cache[ResolvedParentConfigPath(path)].val.v, name))) =>
      \A i \in 1..Len(Prop(cache[path].val.v, name).v) :
        getPropertyOriginalValue(Prop(cache[path].val.v, name), ToString(i - 1))
          = Prop(cache[path].val.v, name).v[i].x

(***************************************************************************)
(* Claims about _mergeObjects, each for one call made on its own.          *)
(***************************************************************************)
\* The call has returned an object
Merged == mergeResult.err = ""

\* The call has thrown
MergeThrew == mergeResult.err \notin {"", "not called"}

\* The values of property name in the parent's result and in the file
ParentValue(name) == Prop(OrEmpty(parentObject), name)

CurrentValue(name) == Prop(OrEmpty(currentObject), name)

\* The file holds a merge behaviour key for name
HasBehavior(name) == HasOwn(OrEmpty(currentObject), MergeBehaviorKey(name))

\* The policy the claims call effective for name is policy: the file's merge
\* behaviour key, a well-formed one, says so, or there is none and the options
\* declare it
EffectivePolicyIs(name, policy) ==
  IF HasBehavior(name)
    THEN /\ CurrentValue(MergeBehaviorKey(name)).t = "str"
         /\ HasOwn(OrEmpty(currentObject), name)
         /\ TypeofObject(CurrentValue(name))
         /\ ToLowerCase(CurrentValue(MergeBehaviorKey(name)).s) = policy
    ELSE propertyInheritanceTypes(name).inheritanceType = policy

\* A keyed object: not null, not an array, not a primitive
IsKeyedObject(x) == x.t = "obj"

\* The names of a property list, as a set
NameSet(entries) == {entries[i].k : i \in 1..Len(entries)}

\* The object the file holds under name has no malformed merge behaviour key
NestedWellFormed(name) ==
  \A k \in NameSet(CurrentValue(name).v) : MergeBehaviorError(CurrentValue(name), k) = ""

\* C11: under the merge policy with two keyed objects, the call returns unless
\* the file's object holds a malformed merge behaviour key, and the merged object holds
\* the names of the parent's object and the names of the file's object other
\* than its merge behaviour keys; a name of the parent only keeps the parent's
\* value, a name of the file only takes the file's, and a name of both whose
\* values are not arrays, with no merge behaviour key of its own, takes the
\* file's value.
C11_MergeIsUnionChildWins ==
  \A name \in MergeNames :
    (/\ mergeResult # NotMerged
     /\ EffectivePolicyIs(name, "merge")
     /\ IsKeyedObject(ParentValue(name)) /\ IsKeyedObject(CurrentValue(name))) =>
      /\ NestedWellFormed(name) => Merged
      /\ Merged =>
         LET P == ParentValue(name).v
             C == CurrentValue(name).v
             R == Prop(mergeResult.val.v, name)
         IN /\ IsKeyedObject(R)
            /\ Len(R.v) = Cardinality(NameSet(R.v))
            /\ NameSet(R.v) = NameSet(P) \cup {k \in NameSet(C) : MergeBehaviorTarget(k) = ""}
            /\ \A k \in NameSet(R.v) :
                 /\ (HasOwn(P, k) /\ ~HasOwn(C, k)) => Prop(R.v, k) = Prop(P, k)
                 /\ (HasOwn(C, k) /\ ~HasOwn(P, k)) => Prop(R.v, k) = Prop(C, k)
                 /\ (/\ HasOwn(C, k) /\ HasOwn(P, k)
                     /\ ~IsArray(Prop(P, k)) /\ ~IsArray(Prop(C, k))
                     /\ ~HasOwn(C, MergeBehaviorKey(k))) => Prop(R.v, k) = Prop(C, k)

\* C11 witness: the parent's {a:1, b:2} and the file's {b:3, c:4} have been
\* merged into {a:1, b:3, c:4}
C11_Witness ==
  \E name \in MergeNames :
    /\ Merged
    /\ EffectivePolicyIs(name, "merge")
    /\ Elements(ParentValue(name)) = <<Num("1"), Num("2")>>
    /\ ObjectKeys(ParentValue(name).v) = <<"a", "b">>
    /\ ObjectKeys(CurrentValue(name).v) = <<"b", "c">>
    /\ ObjectKeys(Prop(mergeResult.val.v, name).v) = <<"a", "b", "c">>
    /\ Elements(Prop(mergeResult.val.v, name)) = <<Num("1"), Num("3"), Num("4")>>

\* The messages of the errors the merge policy throws for name
MergeInheritanceErrors(name) ==
  {Issue(name) \o "Null values cannot be used when the inheritance type is set as \"merge\"",
   Issue(name) \o "Primitive types cannot be provided when the inheritance type is set as \"merge\"",
   Issue(name) \o "Property is not a keyed object, but the inheritance type is set as \"merge\""}

\* C12: where the policy of a property is merge and the parent's value or the
\* file's value is null, the call throws an inheritance error and returns no
\* object.
C12_MergeWithNullThrows ==
  \A name \in MergeNames :
    (/\ mergeResult # NotMerged
     /\ EffectivePolicyIs(name, "merge")
     /\ (ParentValue(name) = Null \/ CurrentValue(name) = Null)) =>
      mergeResult.err \in MergeInheritanceErrors(name)

\* Both the parent's result and the file hold a value for name
BothDefined(name) == ParentValue(name).t # "undefined" /\ CurrentValue(name).t # "undefined"

\* C12 as amended: where the policy of a property is merge, both sides hold a
\* value for it and one of the two values is null, the call throws the error
\* that null cannot be merged and returns no object.
C12_MergeWithNullThrowsWhenBothDefined ==
  \A name \in MergeNames :
    (/\ mergeResult # NotMerged
     /\ EffectivePolicyIs(name, "merge")
     /\ BothDefined(name)
     /\ (ParentValue(name) = Null \/ CurrentValue(name) = Null)) =>
      /\ mergeResult.err =
           Issue(name) \o "Null values cannot be used when the inheritance type is set as \"merge\""
      /\ mergeResult.val = Undefined

\* C12 witness: a call has thrown where only the parent's value is null, by
\* the options' policy or by the file's merge behaviour key
C12_Witness ==
  \E name \in MergeNames :
    /\ MergeThrew
    /\ EffectivePolicyIs(name, "merge")
    /\ ParentValue(name) = Null
    /\ IsKeyedObject(CurrentValue(name))

\* A value that is an array or a primitive
IsArrayOrPrimitive(x) == x.t \in {"arr", "num", "str"}

\* C13: where the policy of a property is merge and the parent's value or the
\* file's value is an array or a primitive, the call throws an inheritance
\* error, also when the other side has no value.
C13_MergeWithArrayOrPrimitiveThrows ==
  \A name \in MergeNames :
    (/\ mergeResult # NotMerged
     /\ EffectivePolicyIs(name, "merge")
     /\ (IsArrayOrPrimitive(ParentValue(name)) \/ IsArrayOrPrimitive(CurrentValue(name)))) =>
      mergeResult.err \in MergeInheritanceErrors(name)

\* Neither object holds a property of MergeNames other than name, and the file
\* holds no merge behaviour key for another one: nothing else can make the call throw
OnlyAbout(name) ==
  \A other \in MergeNames \ {name} :
    /\ ~HasOwn(OrEmpty(currentObject), other)
    /\ ~HasOwn(OrEmpty(parentObject), other)
    /\ ~HasBehavior(other)

\* C14: for a property with no merge behaviour key, for which the options
\* declare nothing ("tags") or replace ("repl"), and whose two values are not
\* both arrays, the call returns, unless another property makes it throw, and
\* the merged value is the file's value where the file
\* holds the property, null included, and the parent's value where it does not.
C14_ReplaceChildWins ==
  \A name \in {"tags", "repl"} :
    (/\ mergeResult # NotMerged
     /\ ~HasBehavior(name)
     /\ ~(IsArray(ParentValue(name)) /\ IsArray(CurrentValue(name)))) =>
      /\ OnlyAbout(name) => Merged
      /\ Merged =>
           /\ Prop(mergeResult.val.v, name) =
                IF HasOwn(OrEmpty(currentObject), name)
                  THEN CurrentValue(name) ELSE ParentValue(name)
           /\ HasOwn(mergeResult.val.v, name) <=>
                (HasOwn(OrEmpty(currentObject), name) \/ HasOwn(OrEmpty(parentObject), name))

\* C14 witness: the file's null has replaced the parent's object, and in
\* another call the parent's value was kept where the file has none
C14_Witness ==
  \/ /\ Merged /\ ~HasBehavior("tags")
     /\ IsKeyedObject(ParentValue("tags")) /\ CurrentValue("tags") = Null
     /\ HasOwn(OrEmpty(currentObject), "tags")
     /\ Prop(mergeResult.val.v, "tags") = Null
  \/ /\ Merged /\ ~HasBehavior("repl")
     /\ IsArray(ParentValue("repl")) /\ ~HasOwn(OrEmpty(currentObject), "repl")
     /\ Prop(mergeResult.val.v, "repl") = ParentValue("repl")

\* C15: whatever the policy of a property (replace, append, merge, custom or
\* an unknown one, by the options or by a well-formed merge behaviour key),
\* where exactly one of the parent's result and the file holds the property the
\* call returns and the merged value is that side's value as it is: no type
\* check, no null check, no call of the custom function, no error for the
\* unknown policy.
C15_OneSideDefinedWins ==
  \A name \in MergeNames :
    (/\ mergeResult # NotMerged
     /\ OnlyAbout(name)
     /\ HasBehavior(name) => MergeBehaviorError(currentObject, MergeBehaviorKey(name)) = ""
     /\ HasOwn(OrEmpty(parentObject), name) # HasOwn(OrEmpty(currentObject), name)) =>
      /\ Merged
      /\ HasOwn(mergeResult.val.v, name)
      /\ Prop(mergeResult.val.v, name) =
           IF HasOwn(OrEmpty(currentObject), name) THEN CurrentValue(name) ELSE ParentValue(name)

\* C15 witness: calls have returned one side's value under the custom policy,
\* under the unknown policy, under merge for a null, and under a merge
\* behaviour key
C15_Witness ==
  /\ Merged
  /\ \/ ParentValue("cust").t = "undefined" /\ IsArray(CurrentValue("cust"))
     \/ IsArray(ParentValue("odd")) /\ CurrentValue("odd").t = "undefined"
     \/ ParentValue("opts").t = "undefined" /\ CurrentValue("opts") = Null
     \/ /\ ParentValue("list").t = "undefined" /\ IsKeyedObject(CurrentValue("list"))
        /\ HasBehavior("list")

\* The policy C16 gives a property: the file's merge behaviour key, else the
\* policy the options declare, else append for two arrays and replace otherwise
ClaimedPolicy(name) ==
  IF HasBehavior(name) THEN ToLowerCase(CurrentValue(MergeBehaviorKey(name)).s)
  ELSE IF propertyInheritanceTypes(name).inheritanceType # ""
    THEN propertyInheritanceTypes(name).inheritanceType
  ELSE IF IsArray(ParentValue(name)) /\ IsArray(CurrentValue(name)) THEN "append"
  ELSE "replace"

\* What a call shows of the policy it applied to name, both sides holding it
Shows(name, policy) ==
  LET P == ParentValue(name)
      C == CurrentValue(name)
      R == Prop(mergeResult.val.v, name)
  IN CASE policy = "replace" -> Merged /\ R = C
       [] policy = "append" ->
            IF IsArray(P) /\ IsArray(C)
              THEN Merged /\ Elements(R) = Elements(P) \o Elements(C) /\ R.ann.has
              ELSE mergeResult.err = Issue(name) \o
                     "Property is not an array, but the inheritance type is set as \"append\""
       [] policy = "merge" ->
            IF IsKeyedObject(P) /\ IsKeyedObject(C)
              THEN /\ NestedWellFormed(name) => Merged
                   /\ Merged => (/\ IsKeyedObject(R) /\ NameSet(P.v) \subseteq NameSet(R.v)
                                 /\ R.ann.file = MergePath)
                   /\ ~Merged => mergeResult.err \in
                        {MergeBehaviorError(C, k) : k \in NameSet(C.v)} \ {""}
            ELSE IF P = Null \/ C = Null \/ IsArray(P) \/ IsArray(C)
              THEN mergeResult.err \in MergeInheritanceErrors(name)
            ELSE TRUE
       [] policy = "custom" ->
            IF propertyInheritanceTypes(name).inheritanceFunction = ""
              THEN mergeResult.err = "For property inheritance type \"InheritanceType.custom\", an inheritanceFunction must be provided."
            ELSE IF IsArray(P) /\ IsArray(C)
              THEN Merged /\ Elements(R) = Elements(P) \o Elements(C) /\ ~R.ann.has
              ELSE Merged /\ R = C
       [] OTHER -> mergeResult.err = "Unknown inheritance type \"[object Object]\""

\* C16: the policy applied to a root-level property that both sides hold is
\* the one of the file's merge behaviour key if there is one, else the one the
\* options declare for the name, else append for two arrays and replace
\* otherwise; a merge behaviour key wins over a declared policy, a declared
\* custom one included.
C16_PolicyPriority ==
  \A name \in MergeNames :
    (/\ mergeResult # NotMerged
     /\ OnlyAbout(name)
     /\ BothDefined(name)
     /\ HasBehavior(name) => MergeBehaviorError(currentObject, MergeBehaviorKey(name)) = "") =>
      Shows(name, ClaimedPolicy(name))

\* C16 witness: the key "REPLACE" has replaced the parent's array where the
\* options declare the custom function, and where they declare append
C16_Witness ==
  \E name \in {"cust", "list"} :
    /\ Merged
    /\ CurrentValue(MergeBehaviorKey(name)) = Str("REPLACE")
    /\ IsArray(ParentValue(name)) /\ IsArray(CurrentValue(name))
    /\ Prop(mergeResult.val.v, name) = CurrentValue(name)

\* The four messages of C17 for the merge behaviour key of name
NoMatchingProperty(name) ==
  Issue(MergeBehaviorKey(name)) \o "A merge behavior was provided but no matching property was found"

NotAString(name, raw) ==
  Issue(MergeBehaviorKey(name)) \o "An unsupported merge behavior was provided: " \o JSONStringify(raw)

NotAnObject(name) ==
  Issue(MergeBehaviorKey(name)) \o "A merge behavior was provided for a property that is not an object"

UnsupportedBehavior(name, raw) ==
  Issue(MergeBehaviorKey(name)) \o "An unsupported merge behavior was provided: \"" \o raw.s \o "\""

\* C17: a file with a malformed merge behaviour key makes the call throw, with
\* a parent or without: the key's property is missing from the file, or the
\* key's value is not a string, or the property's value is not an object
\* (typeof: arrays and null are), or the value is not append, merge or replace
\* in any case of letters.  The first of the four that applies, in this order,
\* gives the message, and the four messages differ from each other.
C17_MalformedDirectiveThrows ==
  \A name \in MergeNames :
    (mergeResult # NotMerged /\ HasBehavior(name)) =>
      LET raw == CurrentValue(MergeBehaviorKey(name))
      IN /\ IF ~HasOwn(OrEmpty(currentObject), name)
              THEN mergeResult.err = NoMatchingProperty(name)
            ELSE IF raw.t # "str"
              THEN mergeResult.err = NotAString(name, raw)
            ELSE IF CurrentValue(name).t \notin {"obj", "arr", "null"}
              THEN mergeResult.err = NotAnObject(name)
            ELSE IF raw.s \notin {"append", "Merge", "REPLACE"}
              THEN mergeResult.err = UnsupportedBehavior(name, raw)
            ELSE mergeResult.err \notin {NoMatchingProperty(name), NotAnObject(name)}
         /\ NoMatchingProperty(name) # NotAnObject(name)
         /\ \A a, b \in MergeBehaviors :
              (a.t # "str" /\ b.t = "str") =>
                /\ NotAString(name, a) # UnsupportedBehavior(name, b)
                /\ NotAString(name, a) \notin {NoMatchingProperty(name), NotAnObject(name)}
                /\ UnsupportedBehavior(name, b) \notin {NoMatchingProperty(name), NotAnObject(name)}

\* C17 witness: with a parent that holds the property, a file whose key has a
\* value that is no string and whose property is missing has thrown the
\* message of the missing property
C17_Witness ==
  \E name \in MergeNames :
    /\ HasBehavior(name)
    /\ HasOwn(OrEmpty(parentObject), name)
    /\ ~HasOwn(OrEmpty(currentObject), name)
    /\ CurrentValue(MergeBehaviorKey(name)) = Num("5")
    /\ mergeResult.err = NoMatchingProperty(name)

(***************************************************************************)
(* Claims about loads, continued.                                          *)
(***************************************************************************)
\* The file a call for path takes its content from: the project's file, or the
\* file of the rig's profile folder where the project has none
LoadedFile(path) ==
  IF fs[path].kind = "absent" /\ task[path].rig.given /\ task[path].rig.rigFound
    THEN RigFilePath(task[path].rig)
    ELSE path

\* Every file of the chain of "extends" that starts at path exists and parses,
\* and its load has returned an object
RECURSIVE ChainLoaded(_, _)
ChainLoaded(path, seen) ==
  /\ fs[path].kind = "json"
  /\ cache[path].st = "fulfilled"
  /\ ResolvedParentConfigPath(path) # "" =>
       /\ ResolvedParentConfigPath(path) \notin seen \cup {path}
       /\ ChainLoaded(ResolvedParentConfigPath(path), seen \cup {path})

\* C18: a call resolves with an object only if every file of the chain of
\* "extends" of the file it loads was read and parsed and its load returned;
\* a call that rejects returns no object.
C18_NoPartialSuccess ==
  \A id \in LoadIds :
    loads[id].st = "done" =>
      /\ loads[id].inner.st = "fulfilled" => ChainLoaded(LoadedFile(loads[id].path), {})
      /\ loads[id].inner.st = "rejected" => loads[id].inner.val = Undefined

\* C19: a call for a path whose earlier load has rejected starts the load
\* again: the file is read a second time.
C19_FailedLoadIsRetried ==
  \A id \in LoadIds :
    (loads[id].st # "idle" /\ loads[id].hit = "rejected") =>
      reads[loads[id].path] >= 2

\* Every file of the chain of "extends" of path exists, and the object cached
\* for it is the one made from it
RECURSIVE OwnChain(_, _)
OwnChain(path, seen) ==
  /\ fs[path].kind = "json"
  /\ cache[path].st = "fulfilled"
  /\ cache[path].oid.path = path
  /\ ResolvedParentConfigPath(path) # "" =>
       /\ ResolvedParentConfigPath(path) \notin seen \cup {path}
       /\ OwnChain(ResolvedParentConfigPath(path), seen \cup {path})

\* The file at path holds the property name
Defines(path, name) == HasOwn(ParseString(fs[path]).v, name)

\* The file at path replaces the property name: no merge behaviour key or the
\* key replace, nothing configured for the name, and not two arrays
Replaces(path, name) ==
  LET json == ParseString(fs[path])
      parent == cache[ResolvedParentConfigPath(path)].val
  IN IF HasOwn(json.v, MergeBehaviorKey(name))
       THEN ToLowerCase(Prop(json.v, MergeBehaviorKey(name)).s) = "replace"
       ELSE /\ propertyInheritanceTypes(name).inheritanceType \in {"", "replace"}
            /\ ~(IsArray(Prop(json.v, name)) /\ IsArray(Prop(parent.v, name)))

\* The property name of the result of path is taken outright from one side at
\* every level of the chain: a file that holds it has no parent that holds it,
\* or replaces it; a file that does not hold it takes its parent's
RECURSIVE TakenOutright(_, _)
TakenOutright(path, name) ==
  IF ResolvedParentConfigPath(path) = "" THEN TRUE
  ELSE IF Defines(path, name)
    THEN HasOwn(cache[ResolvedParentConfigPath(path)].val.v, name) => Replaces(path, name)
  ELSE TakenOutright(ResolvedParentConfigPath(path), name)

\* The file of the chain of path, nearest to path, that holds the property name
RECURSIVE LastDefiner(_, _)
LastDefiner(path, name) ==
  IF Defines(path, name) \/ ResolvedParentConfigPath(path) = "" THEN path
  ELSE LastDefiner(ResolvedParentConfigPath(path), name)

\* The value of name as written in the file at path, annotated, before the
\* path rewriting
AsWritten(path, name) == Prop(_annotateProperties(path, ParseString(fs[path])).v, name)

\* C20: for a property of a load's result that every level of the chain of
\* "extends" took outright from one side, getPropertyOriginalValue on the result
\* returns the value as written in the file that last defined it.
C20_OriginalValueFromLastDefiner ==
  \A path \in Paths, name \in PropertyNames \ {"extends", "$schema"} :
    (/\ OwnChain(path, {})
     /\ HasOwn(cache[path].val.v, name)
     /\ TakenOutright(path, name)) =>
      getPropertyOriginalValue(cache[path].val, name) = AsWritten(LastDefiner(path, name), name)

\* C20 witness: over a chain of three files, the result holds "out", which
\* only the root ancestor defines and whose value the path rewriting changed,
\* and "name", which the file replaced
C20_Witness ==
  \E path \in Paths :
    /\ OwnChain(path, {})
    /\ ResolvedParentConfigPath(path) # ""
    /\ ResolvedParentConfigPath(ResolvedParentConfigPath(path)) # ""
    /\ LastDefiner(path, "out") = ResolvedParentConfigPath(ResolvedParentConfigPath(path))
    /\ Prop(cache[path].val.v, "out") # AsWritten(LastDefiner(path, "out"), "out")
    /\ getPropertyOriginalValue(cache[path].val, "out") = Str("lib")
    /\ Defines(path, "name") /\ Defines(ResolvedParentConfigPath(path), "name")
    /\ TakenOutright(path, "name")
    /\ getPropertyOriginalValue(cache[path].val, "name") = Str("d")

C22_CacheMonotonic ==
  [][\A path \in Paths :
       /\ cache[path].st # "absent" =>
            /\ cache'[path].st # "absent"
            /\ reads'[path] = reads[path]
            /\ task'[path].vs = task[path].vs
            /\ task'[path].rig = task[path].rig
       /\ Settled(cache[path]) => cache'[path] = cache[path]]_vars

\* C22 witness: a call has found the rejected promise an earlier call had
\* cached for its path, the promise is still the one of the single read, and
\* both calls have rejected with its error
C22_Witness ==
  \E i, j \in LoadIds :
    /\ i < j
    /\ loads[i].st = "done" /\ loads[j].st = "done"
    /\ loads[i].path = loads[j].path
    /\ loads[i].hit = "absent" /\ loads[j].hit = "rejected"
    /\ reads[loads[j].path] = 1
    /\ cache[loads[j].path].st = "rejected"
    /\ loads[j].inner = cache[loads[j].path]
    /\ loads[i].inner = cache[loads[j].path]

\* C23: where the "extends" of the files form no cycle, a call that has not
\* settled yet waits on a chain of promises that ends in a step the program can
\* take (a file read, a resolution of a rig's profile folder, a continuation
\* whose promise has settled): it never waits on a promise that waits on itself,
\* so that the call settles when these steps complete.
C23_EveryLoadSettles ==
  \A id \in LoadIds :
    (loads[id].st = "awaiting" /\ \A path \in Paths : ~OnCycle(path)) =>
      CanProgress(loads[id].path, {})

\* The load of path leaves the await of getResolvedProfileFolderAsync in this step
FallbackStarts(path) == task[path].pc = "rigFolder" /\ task'[path].pc # "rigFolder"

FallbackChainComesBack(path) ==
  LET rigFile == RigFilePath(task[path].rig)
  IN /\ fs[path].kind = "absent"
     /\ task[path].pc \in {"awaitRig", "done"}
     /\ task[path].rig.rigFound
     /\ rigFile # path
     /\ fs[rigFile].kind = "json"
     /\ ResolvedParentConfigPath(rigFile) = path
     /\ task[rigFile].vs = task[path].vs
     /\ task[rigFile].pc \in {"awaitParent", "done"}

StartedAsProject(path) ==
  \E id \in LoadIds :
    /\ loads[id].path = path
    /\ loads[id].hit = "absent"
    /\ task[path].vs = id

\* C25: a per-file load has a rig configuration, and looks into a rig, only
\* where a top-level call started it for its own project file; a load started
\* for the "extends" of a file or for a rig's file has none, and rejects with
\* the file-does-not-exist error when its file is missing.
C25_FallbackOnlyForProjectFile ==
  /\ [](\A path \in Paths :
          /\ (task[path].rig.given \/ task[path].pc \in {"rigFolder", "awaitRig"}) =>
               StartedAsProject(path)
          /\ (task[path].pc = "done" /\ ~StartedAsProject(path) /\ fs[path].kind = "absent") =>
               cache[path] = Rejected("NotExist", path))
  /\ [][\A path \in Paths :
          (task[path].pc = "none" /\ task'[path].pc # "none" /\ loads' = loads) =>
            task'[path].rig = NoRig]_vars

\* C25 witness: a call made with a rig that was found has started the load of
\* another file, for an "extends" or for the rig's file; that file is missing
\* and its load has rejected without looking into the rig
C25_Witness ==
  \E id \in LoadIds, path \in Paths :
    /\ loads[id].st = "done"
    /\ task[loads[id].path].vs = id
    /\ task[loads[id].path].rig.rigFound
    /\ path # loads[id].path
    /\ task[path].vs = id
    /\ fs[path].kind = "absent"
    /\ task[path].rig = NoRig
    /\ cache[path] = Rejected("NotExist", path)
    /\ loads[id].inner.st = "rejected"

\* The merged object of the file at path, which has no "extends", before its
\* validation
MergedAlone(path) == _mergeConfigurationFiles(Undefined, ConfigurationJson(path), path).val

\* C26: the merged object of every file of a chain of "extends" is validated:
\* an object the cache holds satisfies the schema, a file whose merged object
\* does not rejects with the schema error, and a file whose parent has
\* rejected with the schema error rejects as well, with the parent's error
\* unless its own loop check threw.
C26_EveryLevelValidated ==
  \A path \in Paths :
    /\ (cache[path].st = "fulfilled" /\ cache[path].val # Undefined) => SchemaValid(cache[path].val)
    /\ (/\ fs[path].kind = "json" /\ task[path].pc = "done"
        /\ ResolvedParentConfigPath(path) = ""
        /\ ~SchemaValid(MergedAlone(path))) => cache[path] = Rejected("Schema", path)
    /\ (/\ fs[path].kind = "json" /\ task[path].pc = "done"
        /\ ResolvedParentConfigPath(path) # ""
        /\ cache[ResolvedParentConfigPath(path)].err.kind = "Schema") =>
         \/ cache[path] = cache[ResolvedParentConfigPath(path)]
         \/ cache[path] = Rejected("Loop", ResolvedParentConfigPath(path))

\* C26 witness: a file has rejected with the schema error of its parent,
\* whose "name" is a number, although the file's own "name", a string, would
\* have replaced it in a merged object that satisfies the schema
C26_Witness ==
  \E id \in LoadIds :
    LET path == loads[id].path
        parent == ResolvedParentConfigPath(path)
    IN /\ loads[id].st = "done"
       /\ fs[path].kind = "json"
       /\ parent # "" /\ parent # path
       /\ fs[parent].kind = "json"
       /\ ResolvedParentConfigPath(parent) = ""
       /\ ~SchemaValid(MergedAlone(parent))
       /\ SchemaValid(_mergeConfigurationFiles(MergedAlone(parent), ConfigurationJson(path), path).val)
       /\ loads[id].inner = Rejected("Schema", parent)

\* C27: the property the selector '$.out' matches is rewritten in the file
\* that holds it, before the merge: in the object of a file that takes it from
\* its chain of "extends", its value is the string written in the file that
\* last defined it, resolved against the folder of that file, whatever the
\* folder of the file loaded, and getPropertyOriginalValue on the object gives
\* the string as written.
C27_PathResolvedInDeclaringFile ==
  \A path \in Paths :
    (/\ OwnChain(path, {})
     /\ HasOwn(cache[path].val.v, jsonPathMetadata.path)
     /\ TakenOutright(path, jsonPathMetadata.path)) =>
      LET declaring == LastDefiner(path, jsonPathMetadata.path)
          raw == Prop(ParseString(fs[declaring]).v, jsonPathMetadata.path)
      IN /\ raw.t = "str"
         /\ Prop(cache[path].val.v, jsonPathMetadata.path) =
              Str(Dirname(declaring) \o "/" \o raw.s)
         /\ getPropertyOriginalValue(cache[path].val, jsonPathMetadata.path) = raw

\* C27 witness: a call for a file of "/b" has returned an object whose "out",
\* taken from the file of "/c" through its "extends", is "/c/dist", with the
\* original value "dist"
C27_Witness ==
  \E id \in LoadIds :
    /\ loads[id].st = "done" /\ loads[id].inner.st = "fulfilled"
    /\ OwnChain(loads[id].path, {})
    /\ Dirname(loads[id].path) = "/b"
    /\ ~Defines(loads[id].path, "out")
    /\ LastDefiner(loads[id].path, "out") = "/c/cfg.json"
    /\ Prop(loads[id].inner.val.v, "out") = Str("/c/dist")
    /\ getPropertyOriginalValue(loads[id].inner.val, "out") = Str("dist")

(***************************************************************************)
(* Claims about the recursive call of _mergeObjects.                       *)
(***************************************************************************)
\* The policy of name is merge and both sides hold a keyed object under it:
\* the call merges the two objects with a recursive call
NestedMerge(name) ==
  /\ mergeResult # NotMerged
  /\ OnlyAbout(name)
  /\ EffectivePolicyIs(name, "merge")
  /\ IsKeyedObject(ParentValue(name)) /\ IsKeyedObject(CurrentValue(name))

\* C28: in the recursive merge of two nested objects, a nested property that
\* both hold, with no merge behaviour key of its own, is appended where both
\* values are arrays and takes the file's value as a whole otherwise, keyed
\* objects included, whatever the options declare for its name; nested
\* "extends" and "$schema" are merged as any other property; and with no
\* nested merge behaviour key the call returns.
C28_NestedMergeUsesDefaultsOnly ==
  \A name \in MergeNames :
    NestedMerge(name) =>
      LET P == ParentValue(name).v
          C == CurrentValue(name).v
          R == Prop(mergeResult.val.v, name).v
      IN /\ (\A k \in NameSet(C) : MergeBehaviorTarget(k) = "") => Merged
         /\ Merged =>
              /\ \A k \in NameSet(C) \cap NameSet(P) :
                   ~HasOwn(C, MergeBehaviorKey(k)) =>
                     IF IsArray(Prop(P, k)) /\ IsArray(Prop(C, k))
                       THEN /\ Elements(Prop(R, k)) = Elements(Prop(P, k)) \o Elements(Prop(C, k))
                            /\ Prop(R, k).ann.has
                       ELSE Prop(R, k) = Prop(C, k)
              /\ \A k \in {"extends", "$schema"} :
                   /\ HasOwn(C, k) => (HasOwn(R, k) /\ Prop(R, k) = Prop(C, k))
                   /\ (HasOwn(P, k) /\ ~HasOwn(C, k)) => (HasOwn(R, k) /\ Prop(R, k) = Prop(P, k))

\* C28 witness: the nested objects both hold "extends", "opts", for which the
\* options declare merge, and "cust", for which they declare the custom
\* function; the merged nested object holds the file's "extends" and
\* "$schema", the file's "opts" alone, and the two "cust" arrays appended
C28_Witness ==
  \E name \in MergeNames :
    /\ NestedMerge(name) /\ Merged
    /\ ObjectKeys(ParentValue(name).v) = <<"extends", "opts", "cust">>
    /\ ObjectKeys(CurrentValue(name).v) = <<"$schema", "extends", "opts", "cust">>
    /\ LET R == Prop(mergeResult.val.v, name).v
       IN /\ ObjectKeys(R) = <<"extends", "opts", "cust", "$schema">>
          /\ Prop(R, "extends") = Str("y")
          /\ Prop(R, "$schema") = Str("s")
          /\ ObjectKeys(Prop(R, "opts").v) = <<"c">>
          /\ Elements(Prop(R, "cust")) = <<Num("1"), Num("2")>>
          /\ Prop(R, "cust").ann.has

\* C29 as claimed: in the recursive merge of two nested objects a merge
\* behaviour key of the file's nested object is not validated and not removed:
\* the call does not throw for it and the merged nested object holds it with
\* the file's value.
C29_NestedDirectiveKept ==
  \A name \in MergeNames :
    NestedMerge(name) =>
      \A k \in NameSet(CurrentValue(name).v) :
        MergeBehaviorTarget(k) # "" =>
          /\ Merged
          /\ HasOwn(Prop(mergeResult.val.v, name).v, k)
          /\ Prop(Prop(mergeResult.val.v, name).v, k) = Prop(CurrentValue(name).v, k)

\* C29 as amended: in the recursive merge of two nested objects a merge
\* behaviour key of the file's nested object is handled as at the root: a
\* malformed one makes the call throw its error, a well-formed one is applied
\* to its property (replace keeps the file's value, also for two arrays) and
\* is not copied to the merged nested object, which holds such a key only
\* where the parent's nested object does.
C29_NestedDirectiveApplied ==
  \A name \in MergeNames :
    NestedMerge(name) =>
      LET P == ParentValue(name).v
          C == CurrentValue(name).v
          R == Prop(mergeResult.val.v, name).v
      IN \A k \in PropertyNames :
           HasOwn(C, MergeBehaviorKey(k)) =>
             /\ MergeBehaviorError(CurrentValue(name), MergeBehaviorKey(k)) # "" =>
                  mergeResult.err = MergeBehaviorError(CurrentValue(name), MergeBehaviorKey(k))
             /\ MergeBehaviorError(CurrentValue(name), MergeBehaviorKey(k)) = "" => Merged
             /\ Merged =>
                  /\ HasOwn(R, MergeBehaviorKey(k)) <=> HasOwn(P, MergeBehaviorKey(k))
                  /\ (HasOwn(P, k)
                      /\ ToLowerCase(Prop(C, MergeBehaviorKey(k)).s) = "replace") =>
                       Prop(R, k) = Prop(C, k)

\* C29 witness: the file's nested object holds an array "b" and the key
\* "$b.mergeBehavior" with "replace", the parent's holds "a" and "b"; the
\* merged nested object holds "a" and the file's "b", and no such key
C29_Witness ==
  \E name \in MergeNames :
    /\ NestedMerge(name) /\ Merged
    /\ ObjectKeys(CurrentValue(name).v) = <<"b", "$b.mergeBehavior">>
    /\ ObjectKeys(ParentValue(name).v) = <<"a", "b">>
    /\ ObjectKeys(Prop(mergeResult.val.v, name).v) = <<"a", "b">>
    /\ Prop(Prop(mergeResult.val.v, name).v, "b") = Prop(CurrentValue(name).v, "b")

(***************************************************************************)
(* Claims about the objects the loads return.                              *)
(***************************************************************************)
\* The names a returned object never holds at its root
IsStrippedName(k) == k \in {"extends", "$schema"} \/ MergeBehaviorTarget(k) # ""

\* C30: the object of every load that has succeeded, whatever the length of
\* its chain of "extends" and also where it is the object of a rig's file,
\* holds no property "extends" or "$schema" and no merge behaviour key at its
\* root.
C30_RootHasNoSyntheticKeys ==
  /\ \A path \in Paths :
       cache[path].st = "fulfilled" =>
         \A k \in NameSet(cache[path].val.v) : ~IsStrippedName(k)
  /\ \A id \in LoadIds :
       (loads[id].st = "done" /\ loads[id].out.st = "fulfilled") =>
         \A k \in NameSet(loads[id].out.val.v) : ~IsStrippedName(k)

\* C30 witness: a call has returned the object of a file with "extends" and a
\* merge behaviour key, whose parent has "extends" and whose parent's parent
\* has "$schema"
C30_Witness ==
  \E id \in LoadIds :
    LET path == loads[id].path
        parent == ResolvedParentConfigPath(path)
    IN /\ loads[id].st = "done" /\ loads[id].out.st = "fulfilled"
       /\ OwnChain(path, {})
       /\ parent # ""
       /\ ResolvedParentConfigPath(parent) # ""
       /\ Defines(path, "extends") /\ Defines(path, "$tags.mergeBehavior")
       /\ Defines(parent, "extends")
       /\ Defines(ResolvedParentConfigPath(parent), "$schema")
       /\ Len(loads[id].out.val.v) > 0

\* Every object and array reachable from x, x included, carries an annotation,
\* and no other value does
RECURSIVE Annotated(_)
Annotated(x) ==
  IF x.t \in {"obj", "arr"}
    THEN x.ann.has /\ \A i \in 1..Len(x.v) : Annotated(x.v[i].x)
    ELSE ~x.ann.has

\* C31: in the object of every load that has succeeded (no file of the loads
\* holds a property with a custom inheritance function), every object and
\* array reachable from the root carries an annotation and no primitive value
\* carries one.
C31_EveryObjectAnnotated ==
  /\ \A path \in Paths : cache[path].st = "fulfilled" => Annotated(cache[path].val)
  /\ \A id \in LoadIds :
       (loads[id].st = "done" /\ loads[id].out.st = "fulfilled" /\ loads[id].out.val # Undefined) =>
         Annotated(loads[id].out.val)

\* C31 witness: a call has returned an object whose "tags" two files appended
\* to, whose "opts" is the recursive merge of two objects, and whose "out" and
\* "name" are taken outright from the parent and from the file
C31_Witness ==
  \E id \in LoadIds :
    LET path == loads[id].path
        val == loads[id].out.val
    IN /\ loads[id].st = "done" /\ loads[id].out.st = "fulfilled"
       /\ OwnChain(path, {})
       /\ ResolvedParentConfigPath(path) # ""
       /\ Len(Prop(val.v, "tags").v) = 3
       /\ Prop(val.v, "tags").ann.file = "undefined"
       /\ ObjectKeys(Prop(val.v, "opts").v) = <<"a", "b", "c">>
       /\ Prop(val.v, "opts").ann.file = path
       /\ Prop(val.v, "out").t = "str" /\ ~Defines(path, "out")
       /\ Defines(path, "name")

(***************************************************************************)
(* Claims about the custom inheritance function.                           *)
(***************************************************************************)
\* C32: where the options declare custom for a property that both sides hold
\* and the file has no merge behaviour key for it, the merged value is what
\* the declared function returns for the file's value and the parent's value,
\* in this order, as it returns it; where the declared entry has no function
\* the call throws.
C32_CustomResultIsFunctionResult ==
  \A name \in MergeNames :
    (/\ mergeResult # NotMerged
     /\ OnlyAbout(name)
     /\ BothDefined(name)
     /\ EffectivePolicyIs(name, "custom")) =>
      IF propertyInheritanceTypes(name).inheritanceFunction = ""
        THEN mergeResult.err =
               "For property inheritance type \"InheritanceType.custom\", an inheritanceFunction must be provided."
        ELSE /\ Merged
             /\ Prop(mergeResult.val.v, name) =
                  inheritanceFunction(propertyInheritanceTypes(name).inheritanceFunction,
                                      CurrentValue(name), ParentValue(name))

\* C32 witness: the function has been handed the file's [3] and the parent's
\* [1, 2] and the merged value is the [1, 2, 3] it returned, without annotation
C32_Witness ==
  /\ Merged
  /\ OnlyAbout("cust") /\ ~HasBehavior("cust")
  /\ Elements(CurrentValue("cust")) = <<_annotateProperties(MergePath, Num("3"))>>
  /\ Len(ParentValue("cust").v) = 2 /\ IsArray(ParentValue("cust"))
  /\ Elements(Prop(mergeResult.val.v, "cust")) = <<Num("1"), Num("2"), Num("3")>>
  /\ ~Prop(mergeResult.val.v, "cust").ann.has

(***************************************************************************)
(* Claims about the annotation of the merged object.                       *)
(***************************************************************************)
\* C33: for every property the object a call returns holds, whatever policy
\* gave it its value, the annotation of the object has an entry in
\* originalValues and getPropertyOriginalValue returns a value for it.
C33_EveryPropertyHasOriginalValue ==
  Merged =>
    \A k \in NameSet(mergeResult.val.v) :
      /\ HasOwn(mergeResult.val.ann.orig, k)
      /\ getPropertyOriginalValue(mergeResult.val, k) # Undefined

\* The load of path has returned the object made from the file at path, and
\* the load of the file it extends, if any, the object made from that one
MadeFromFile(path) ==
  /\ fs[path].kind = "json"
  /\ cache[path].st = "fulfilled"
  /\ ResolvedParentConfigPath(path) # "" =>
       /\ ResolvedParentConfigPath(path) # path
       /\ cache[ResolvedParentConfigPath(path)].st = "fulfilled"

\* The load of path has returned the object of the file of the rig's profile
ReturnedRigObject(path) ==
  /\ fs[path].kind = "absent"
  /\ cache[path].st = "fulfilled"

\* The file the object returned for path was made from: the file at path, or
\* for a path without a file the one the load of the rig's file returned
RECURSIVE SourceFile(_, _)
SourceFile(path, seen) ==
  IF fs[path].kind = "absent" /\ task[path].rig.given /\ task[path].rig.rigFound
       /\ RigFilePath(task[path].rig) \notin seen \cup {path}
    THEN SourceFile(RigFilePath(task[path].rig), seen \cup {path})
    ELSE path

\* C34: the object made by the merge that ends the load of a file names that
\* file as its source, and so does every nested object the recursive merge has
\* made, also where all its properties are the parent's; a nested object or
\* array taken from the file alone names the file, one taken from the parent
\* alone is the parent's, with the source it names there; and the object a
\* call gets through the rig names the file it was made from, the rig's file
\* or the one the load of the rig's file has returned, not the project's.
C34_MergedObjectsNameTheirFile ==
  /\ \A path \in Paths :
       MadeFromFile(path) =>
         LET parent == cache[ResolvedParentConfigPath(path)].val
             val == cache[path].val
             inherited(name) == ResolvedParentConfigPath(path) # "" /\ HasOwn(parent.v, name)
         IN /\ getObjectSourceFilePath(val) = path
            /\ \A name \in NameSet(val.v) :
                 /\ (/\ Defines(path, name) /\ inherited(name)
                     /\ ~Defines(path, MergeBehaviorKey(name))
                     /\ propertyInheritanceTypes(name).inheritanceType = "merge") =>
                      (IsKeyedObject(Prop(val.v, name))
                         /\ getObjectSourceFilePath(Prop(val.v, name)) = path)
                 /\ (/\ Defines(path, name) /\ ~inherited(name)
                     /\ Prop(val.v, name).t \in {"obj", "arr"}) =>
                      getObjectSourceFilePath(Prop(val.v, name)) = path
                 /\ (~Defines(path, name) /\ inherited(name)) =>
                      Prop(val.v, name) = Prop(parent.v, name)
  /\ \A path \in Paths :
       ReturnedRigObject(path) =>
         /\ RigFilePath(task[path].rig) # path
         /\ cache[path].val = cache[RigFilePath(task[path].rig)].val
         /\ SourceFile(path, {}) # path
         /\ fs[SourceFile(path, {})].kind = "json"
         /\ getObjectSourceFilePath(cache[path].val) = SourceFile(path, {})
  /\ \A id \in LoadIds :
       (loads[id].st = "done" /\ loads[id].inner.st = "fulfilled") =>
         getObjectSourceFilePath(loads[id].inner.val) = SourceFile(loads[id].path, {})

\* C34 witness: a call for a project without the file has returned the object
\* of the rig's file /c/cfg.json, which holds an empty "opts" and extends a
\* file with "opts" and "tags": the object and its "opts", the parent's
\* properties all, name /c/cfg.json, its "tags" name the parent
C34_Witness ==
  \E id \in LoadIds :
    LET path == loads[id].path
        val == loads[id].inner.val
        parent == cache[ResolvedParentConfigPath("/c/cfg.json")].val
    IN /\ loads[id].st = "done" /\ loads[id].inner.st = "fulfilled"
       /\ ReturnedRigObject(path)
       /\ LoadedFile(path) = "/c/cfg.json"
       /\ MadeFromFile("/c/cfg.json")
       /\ fs["/c/cfg.json"].data = "bare"
       /\ getObjectSourceFilePath(val) = "/c/cfg.json"
       /\ Len(Prop(val.v, "opts").v) > 0
       /\ Prop(val.v, "opts").v = Prop(parent.v, "opts").v
       /\ getObjectSourceFilePath(Prop(val.v, "opts")) = "/c/cfg.json"
       /\ getObjectSourceFilePath(Prop(parent.v, "opts")) = ResolvedParentConfigPath("/c/cfg.json")
       /\ getObjectSourceFilePath(Prop(val.v, "tags")) = ResolvedParentConfigPath("/c/cfg.json")

RigUsable(id) == loads[id].rig.given /\ loads[id].rig.rigFound

\* C36: what a call made with no other call in flight returns for a project
\* without the file depends on its own rig only, not on the calls made for
\* the project before: without a rig it fails with the file-does-not-exist
\* error; with a rig it loads the rig's file, and succeeds where that load does.
C36_FallbackIndependentOfHistory ==
  \A id \in LoadIds :
    (/\ loads[id].st = "done" /\ loads[id].alone
     /\ fs[loads[id].path].kind = "absent") =>
      IF RigUsable(id)
        THEN /\ cache[RigFilePath(loads[id].rig)].st # "absent"
             /\ cache[RigFilePath(loads[id].rig)].st = "fulfilled" =>
                  loads[id].inner.st = "fulfilled"
        ELSE IsNotExistError(loads[id].inner)

\* C37: where no file is on a cycle of "extends" and the rig's file of no call
\* is the call's project file, no call fails with the error of the loop
\* check, whatever the cache holds and whatever other calls are in flight.
C37_NoLoopErrorWithoutCycle ==
  (/\ \A path \in Paths : ~OnCycle(path)
   /\ \A id \in LoadIds :
        (loads[id].st # "idle" /\ RigUsable(id)) => RigFilePath(loads[id].rig) # loads[id].path) =>
    \A id \in LoadIds :
      loads[id].st = "done" =>
        ~(loads[id].inner.st = "rejected" /\ loads[id].inner.err.kind = "Loop")

(***************************************************************************)
(* Claims about a chain of merges.                                         *)
(***************************************************************************)
\* C38: where the policy that applies to a property is append and both sides
\* hold an array, the call returns and the merged array holds the parent's
\* elements then the file's, also where the parent's array was made by the
\* merge of the parent file with its own parent, whatever policy made it.
C38_AppendOfArraysSucceeds ==
  \A name \in ChainNames :
    (/\ mergeResult # NotMerged
     /\ ClaimedPolicy(name) = "append"
     /\ HasBehavior(name) => MergeBehaviorError(currentObject, MergeBehaviorKey(name)) = ""
     /\ IsArray(ParentValue(name)) /\ IsArray(CurrentValue(name))) =>
      /\ Merged
      /\ Elements(Prop(mergeResult.val.v, name)) =
           Elements(ParentValue(name)) \o Elements(CurrentValue(name))

====
